---- MODULE Spec2Model ----
(***************************************************************************)
(* A model of grit: the staging index (src/src/index.rs), the tree builder *)
(* (src/src/tree.rs), the object store (src/src/database.rs) and the       *)
(* add / commit commands (src/src/main.rs).                                *)
(*                                                                         *)
(* Representation.                                                         *)
(*  - A byte is a number in 0..255, a byte string a sequence of bytes.     *)
(*  - A PathBuf is represented by the sequence of its components (each a   *)
(*    byte string): that is what PathBuf's Eq, Ord and Hash compare.  The  *)
(*    conversions to and from the path's text (to_string_lossy,            *)
(*    PathBuf::from) are PathString and PathFromString.  All paths of the  *)
(*    model are relative ASCII paths, as Workspace::list_files yields.     *)
(*  - SHA-1 (crate sha1_smol) is replaced by Sha1, a computable stand-in   *)
(*    with a 20-byte result; a Digest is its 20 bytes.                     *)
(*  - u32 values stay below 2^31.                                          *)
(***************************************************************************)
EXTENDS Integers, Sequences, FiniteSets, TLC

VARIABLES
    pc,                   \* where the process using the index stands
    entries,              \* Index.entries: path -> IndexEntry
    parents_to_children,  \* Index.parents_to_children: path -> set of paths
    indexFile,            \* the file at Index.path: [exists, data]
    nadds,                \* Index::add calls made so far (bounded)
    fresh,                \* the index is as Index::new returned it
    nwrites,              \* Index::write_updates calls made so far (bounded)
    lastAdd,              \* what the last Index::add was called with
    lastWritten,          \* the entries the last completed write_updates wrote
    workspace,            \* the working directory: path -> [data, exec]
    objects,              \* the files under .git/objects: object_path -> bytes
    head,                 \* the file .git/HEAD: [exists, data]
    cpc,                  \* where the commit command stands
    root_tree,            \* the commit command's root_tree
    to_store,             \* the objects the command hands to Database::store, in order
    stored,               \* how many of them Database::store has returned for
    phase,                \* "tree": to_store is the traversal; "commit": the commit
    ncommits,             \* commit commands started so far (bounded)
    commits,              \* every commit built so far: address -> [tree, parent]
    lastStore,            \* how the last Database::store call ended
    call,                 \* a function called on its own: [fn, ...], its arguments
    ret,                  \* what that call returned
    runs                  \* the add commands running: process -> its locals

\* The variables of the index process and those of the commit command.
ivars == <<pc, entries, parents_to_children, nadds, nwrites, fresh, lastAdd, lastWritten>>
cvars == <<workspace, objects, head, cpc, root_tree, to_store, stored, phase, ncommits,
           commits, lastStore>>
hvars == <<call, ret, runs>>
vars == <<ivars, indexFile, cvars, hvars>>

(***************************************************************************)
(* Bounds.                                                                 *)
(***************************************************************************)
MaxAdds == 4
MaxPersistAdds == 2
MaxWrites == 2
MaxCommits == 2

(***************************************************************************)
(* Byte strings.                                                           *)
(***************************************************************************)
Min(a, b) == IF a < b THEN a ELSE b

\* s < t in the byte-wise lexicographic order (memcmp, then length).
BytesLess(s, t) ==
    \E k \in 1..(Len(s) + 1) :
        /\ k - 1 <= Len(t)
        /\ \A i \in 1..(k - 1) : s[i] = t[i]
        /\ \/ k = Len(s) + 1 /\ Len(t) >= k
           \/ k <= Len(s) /\ k <= Len(t) /\ s[k] < t[k]

\* The concatenation of the byte strings ss[lo..hi], by halving.
RECURSIVE ConcatRange(_, _, _)
ConcatRange(ss, lo, hi) ==
    IF lo > hi THEN <<>>
    ELSE IF lo = hi THEN ss[lo]
    ELSE ConcatRange(ss, lo, (lo + hi) \div 2) \o ConcatRange(ss, (lo + hi) \div 2 + 1, hi)

Concat(ss) == ConcatRange(ss, 1, Len(ss))

Zeros(n) == [i \in 1..n |-> 0]

\* u32::to_be_bytes / u16::to_be_bytes and from_be_bytes.
U32ToBe(n) == << (n \div 16777216) % 256, (n \div 65536) % 256, (n \div 256) % 256, n % 256 >>
U16ToBe(n) == << (n \div 256) % 256, n % 256 >>
U32FromBe(b) == ((b[1] * 256 + b[2]) * 256 + b[3]) * 256 + b[4]
U16FromBe(b) == b[1] * 256 + b[2]

(***************************************************************************)
(* Sha1::from(data).digest(): the stand-in hash.  Two polynomial sums      *)
(* (computed by halving, so that long inputs need no deep recursion) and   *)
(* the length, spread over 20 bytes.                                       *)
(***************************************************************************)
\* <<sum, power>> of data[lo..hi]: the sum of (byte + 1) * mult^(hi - i) and
\* mult^(hi - lo + 1), both modulo modulus.
RECURSIVE Poly(_, _, _, _, _)
Poly(data, lo, hi, mult, modulus) ==
    IF lo > hi THEN <<0, 1>>
    ELSE IF lo = hi THEN <<(data[lo] + 1) % modulus, mult % modulus>>
    ELSE LET mid == (lo + hi) \div 2
             a == Poly(data, lo, mid, mult, modulus)
             b == Poly(data, mid + 1, hi, mult, modulus)
         IN  <<(a[1] * b[2] + b[1]) % modulus, (a[2] * b[2]) % modulus>>

Sha1(data) ==
    LET h1 == Poly(data, 1, Len(data), 257, 46337)[1]
        h2 == Poly(data, 1, Len(data), 263, 46327)[1]
        n  == Len(data) % 65536
    IN  << h1 \div 256, h1 % 256, h2 \div 256, h2 % 256, n \div 256, n % 256 >>
        \o [i \in 1..14 |-> (h1 + i * h2 + i * n + i) % 256]

(***************************************************************************)
(* Paths.                                                                  *)
(***************************************************************************)
Slash == 47

\* String::from_utf8 accepts the bytes. The bytes of the model are ASCII
\* but for 255, a byte that no UTF-8 text contains.
ValidUtf8(bytes) == \A i \in 1..Len(bytes) : bytes[i] # 255

\* String::from_utf8_lossy: every byte that is not UTF-8 text is replaced by
\* U+FFFD, the three bytes EF BF BD.
RECURSIVE Lossy(_)
Lossy(bytes) ==
    IF ValidUtf8(bytes) THEN bytes
    ELSE (IF Head(bytes) = 255 THEN <<239, 191, 189>> ELSE <<Head(bytes)>>)
             \o Lossy(Tail(bytes))

\* Path::to_string_lossy of a relative path: its components joined by '/',
\* as text.
RECURSIVE PathString(_)
PathString(path) ==
    IF path = <<>> THEN <<>>
    ELSE IF Len(path) = 1 THEN Lossy(path[1])
    ELSE Lossy(path[1]) \o <<Slash>> \o PathString(Tail(path))

\* PathBuf::from(text), seen through Path::components: the text split at
\* '/', empty components (repeated or trailing separators) dropped.
RECURSIVE SplitAt(_, _)
SplitAt(text, i) ==
    IF i > Len(text) THEN <<>>
    ELSE LET next(j) == (IF j = i THEN <<>> ELSE << SubSeq(text, i, j - 1) >>)
                            \o SplitAt(text, j + 1)
         IN  next(CHOOSE j \in i..(Len(text) + 1) :
                      /\ j = Len(text) + 1 \/ text[j] = Slash
                      /\ \A k \in i..(j - 1) : text[k] # Slash)

PathFromString(text) == SplitAt(text, 1)

\* impl Ord for Path: the components are compared one by one, each
\* byte-wise (std compares Components iterators, not the text).
PathLess(p, q) ==
    \E k \in 1..(Len(p) + 1) :
        /\ k - 1 <= Len(q)
        /\ \A i \in 1..(k - 1) : p[i] = q[i]
        /\ \/ k = Len(p) + 1 /\ Len(q) >= k
           \/ k <= Len(p) /\ k <= Len(q) /\ BytesLess(p[k], q[k])

\* The keys of a BTreeMap<PathBuf, _> in iteration order.
SortedPaths(S) ==
    [i \in 1..Cardinality(S) |->
        CHOOSE p \in S : Cardinality({q \in S : PathLess(q, p)}) = i - 1]

\* Path::ancestors: the path, its parent, ..., the empty path.
Ancestors(path) == [i \in 1..(Len(path) + 1) |-> SubSeq(path, 1, Len(path) + 1 - i)]

Skip(s, n) == SubSeq(s, n + 1, Len(s))
Rev(s) == [i \in 1..Len(s) |-> s[Len(s) + 1 - i]]
\* Path::file_name, as a path of its own: the last component.
FileName(path) == << path[Len(path)] >>

\* Tree::get_parent_directories: ancestors, skip(1), rev, skip(1), and of
\* each what file_name gives.
get_parent_directories(path) ==
    LET dirs == Skip(Rev(Skip(Ancestors(path), 1)), 1)
    IN  [i \in 1..Len(dirs) |-> FileName(dirs[i])]

(***************************************************************************)
(* The staging index in memory (struct Index).  An index value is          *)
(* [entries, parents_to_children]; an IndexEntry is [path, oid, metadata]. *)
(***************************************************************************)
NoEntries == [p \in {} |-> p]
EmptyIndex == [entries |-> NoEntries, parents_to_children |-> NoEntries]

MapRemove(f, k) == [x \in (DOMAIN f) \ {k} |-> f[x]]
MapPut(f, k, v) == [x \in (DOMAIN f) \cup {k} |-> IF x = k THEN v ELSE f[x]]

\* The orders in which a HashSet's iteration may yield its elements.
Orders(S) ==
    { s \in [1..Cardinality(S) -> S] : \A i, j \in 1..Cardinality(S) : i # j => s[i] # s[j] }

\* The loop of Index::remove_entry over the parents of the removed path.
RECURSIVE remove_from_parents(_, _, _, _)
remove_from_parents(p2c, parents, i, entry_path) ==
    IF i > Len(parents) THEN p2c
    ELSE LET parent == parents[i]
             next == IF parent \in DOMAIN p2c
                     THEN IF p2c[parent] = {}
                          THEN MapRemove(p2c, parent)
                          ELSE MapPut(p2c, parent, p2c[parent] \ {entry_path})
                     ELSE p2c
         IN  remove_from_parents(next, parents, i + 1, entry_path)

\* A remove_entry that takes the entry out of the entries and leaves the
\* child sets as they are.
remove_entry_entries_only(idx, path) ==
    IF path \in DOMAIN idx.entries
    THEN [entries |-> MapRemove(idx.entries, idx.entries[path].path),
          parents_to_children |-> idx.parents_to_children]
    ELSE idx

\* Index::remove_entry.
remove_entry(idx, path) ==
    IF path \in DOMAIN idx.entries
    THEN LET entry_path == idx.entries[path].path
         IN  [entries |-> MapRemove(idx.entries, entry_path),
              parents_to_children |->
                  remove_from_parents(idx.parents_to_children,
                                      get_parent_directories(entry_path), 1, entry_path)]
    ELSE idx

\* remove_entry of each path of a sequence, in turn.
RECURSIVE remove_entries(_, _, _)
remove_entries(idx, paths, i) ==
    IF i > Len(paths) THEN idx
    ELSE remove_entries(remove_entry(idx, paths[i]), paths, i + 1)

\* The children Index::remove_children iterates over (a clone of the set).
children_of(idx, path) ==
    IF path \in DOMAIN idx.parents_to_children
    THEN idx.parents_to_children[path]
    ELSE {}

\* Index::remove_children; order is the iteration order of the cloned set.
remove_children(idx, path, order) ==
    IF path \in DOMAIN idx.parents_to_children
    THEN remove_entries(idx, order, 1)
    ELSE idx

\* The first loop of Index::discard_conflicts: remove_entry of every
\* parent directory.
discard_parents(idx, conflicting_path) ==
    remove_entries(idx, get_parent_directories(conflicting_path), 1)

\* Index::discard_conflicts.
discard_conflicts(idx, conflicting_path, order) ==
    remove_children(discard_parents(idx, conflicting_path), conflicting_path, order)

\* The loop shared by Index::store_entry and Index::construct_parents_cache.
RECURSIVE populate_parents(_, _, _, _)
populate_parents(p2c, parents, i, entry_path) ==
    IF i > Len(parents) THEN p2c
    ELSE LET parent_dir == parents[i]
             next == IF parent_dir \in DOMAIN p2c
                     THEN MapPut(p2c, parent_dir, p2c[parent_dir] \cup {entry_path})
                     ELSE MapPut(p2c, parent_dir, {entry_path})
         IN  populate_parents(next, parents, i + 1, entry_path)

\* A store_entry that leaves an entry that is there as it is.
store_entry_keep(idx, entry) ==
    [entries |-> IF entry.path \in DOMAIN idx.entries THEN idx.entries
                 ELSE MapPut(idx.entries, entry.path, entry),
     parents_to_children |->
         populate_parents(idx.parents_to_children,
                          get_parent_directories(entry.path), 1, entry.path)]

\* Index::store_entry.
store_entry(idx, entry) ==
    [entries |-> MapPut(idx.entries, entry.path, entry),
     parents_to_children |->
         populate_parents(idx.parents_to_children,
                          get_parent_directories(entry.path), 1, entry.path)]

\* Index::add.
add(idx, path, oid, metadata, order) ==
    store_entry(discard_conflicts(idx, path, order),
                [path |-> path, oid |-> oid, metadata |-> metadata])

\* Index::construct_parents_cache: over the keys in BTreeMap order.
RECURSIVE construct_loop(_, _, _)
construct_loop(p2c, keys, i) ==
    IF i > Len(keys) THEN p2c
    ELSE construct_loop(
             populate_parents(p2c, get_parent_directories(keys[i]), 1, keys[i]),
             keys, i + 1)

construct_parents_cache(ents) == construct_loop(NoEntries, SortedPaths(DOMAIN ents), 1)

\* Index::get_filepaths: the keys of the BTreeMap, in its order.
get_filepaths(idx) == SortedPaths(DOMAIN idx.entries)

(***************************************************************************)
(* The index file: IndexEntry::to_data / read_entry, the header, and       *)
(* Index::new / Index::write_updates.                                      *)
(***************************************************************************)
MAX_PATH_SIZE == 4095
ENTRY_BLOCK == 8
VERSION == 2
REGULAR_MODE == 33188
EXECUTABLE_MODE == 33261
SIGNATURE == <<68, 73, 82, 67>>

\* The ten fields of IndexMetadata in the order to_data packs them.
MetadataFields(m) ==
    << m.ctime, m.ctime_nsec, m.mtime, m.mtime_nsec, m.dev, m.ino, m.mode, m.uid, m.gid, m.size >>

\* impl From<[u8; 40]> for IndexMetadata.
MetadataFromBytes(input) ==
    LET fields == [i \in 1..10 |-> U32FromBe(SubSeq(input, 4 * i - 3, 4 * i))]
    IN  [ctime |-> fields[1], ctime_nsec |-> fields[2], mtime |-> fields[3],
         mtime_nsec |-> fields[4], dev |-> fields[5], ino |-> fields[6],
         mode |-> fields[7], uid |-> fields[8], gid |-> fields[9], size |-> fields[10]]

\* IndexEntry::to_data.
to_data(entry) ==
    LET fields == MetadataFields(entry.metadata)
        packed == Concat([i \in 1..10 |-> U32ToBe(fields[i])]) \o entry.oid
        path == PathString(entry.path)
        flags == Min(Len(path), MAX_PATH_SIZE)
        v == packed \o U16ToBe(flags) \o path
        remaining == ENTRY_BLOCK - (Len(v) % ENTRY_BLOCK)
    IN  v \o Zeros(remaining)

\* A failed read or assertion: the process panics.
Panic == [ok |-> FALSE]

\* Read::read_exact on a Cursor at position pos (0-based).
ReadExact(data, pos, n) ==
    IF pos + n <= Len(data)
    THEN [ok |-> TRUE, buf |-> SubSeq(data, pos + 1, pos + n), pos |-> pos + n]
    ELSE Panic

\* read_entry, length < MAX_PATH_SIZE: the path by its length, then one
\* byte that must be NUL.
ReadPathByLength(data, pos, length) ==
    LET terminated(b, null) ==
            IF ~null.ok \/ null.buf[1] # 0 THEN Panic
            ELSE [ok |-> TRUE, text |-> b.buf, pos |-> null.pos]
        path_read(b) == IF ~b.ok THEN Panic ELSE terminated(b, ReadExact(data, b.pos, 1))
    IN  path_read(ReadExact(data, pos, length))

\* read_entry, otherwise: the bytes up to the first NUL, which is consumed
\* too (or up to the end of the data when there is none).
ReadPathToNul(data, pos) ==
    LET up_to(nuls) ==
            IF nuls = {}
            THEN [ok |-> TRUE, text |-> SubSeq(data, pos + 1, Len(data)), pos |-> Len(data)]
            ELSE LET first(n) == [ok |-> TRUE, text |-> SubSeq(data, pos + 1, n - 1), pos |-> n]
                 IN  first(CHOOSE i \in nuls : \A j \in nuls : i <= j)
    IN  up_to({ i \in (pos + 1)..Len(data) : data[i] = 0 })

\* IndexEntry::read_entry on a cursor at position start.
read_entry(data, start) ==
    LET \* the entry, once the padding is read
        padded(f, sha, p, remaining, padding) ==
            IF ~padding.ok THEN Panic
            ELSE IF \E i \in 1..remaining : padding.buf[i] # 0 THEN Panic
            ELSE [ok |-> TRUE,
                  entry |-> [path |-> PathFromString(p.text),
                             \* let oid = Sha1::from(sha).digest();
                             oid |-> Sha1(sha.buf),
                             metadata |-> MetadataFromBytes(f.buf)],
                  pos |-> padding.pos]
        pad(f, sha, p, remaining) ==
            padded(f, sha, p, remaining, ReadExact(data, p.pos, remaining))
        \* num_bytes_consumed is p.pos - start
        \* String::from_utf8(buf).expect("Entry path not UTF-8")
        path_read(f, sha, p) ==
            IF ~p.ok THEN Panic
            ELSE IF ~ValidUtf8(p.text) THEN Panic
            ELSE pad(f, sha, p, (ENTRY_BLOCK - ((p.pos - start) % ENTRY_BLOCK)) % ENTRY_BLOCK)
        read_path(flags, length) ==
            IF length < MAX_PATH_SIZE
            THEN ReadPathByLength(data, flags.pos, length)
            ELSE ReadPathToNul(data, flags.pos)
        flags_read(f, sha, flags) ==
            IF ~flags.ok THEN Panic
            ELSE path_read(f, sha, read_path(flags, U16FromBe(flags.buf)))
        sha_read(f, sha) ==
            IF ~sha.ok THEN Panic ELSE flags_read(f, sha, ReadExact(data, sha.pos, 2))
        metadata_read(f) ==
            IF ~f.ok THEN Panic ELSE sha_read(f, ReadExact(data, f.pos, 20))
    IN  metadata_read(ReadExact(data, start, 40))

\* Index::get_header.
get_header(idx) ==
    SIGNATURE \o U32ToBe(VERSION) \o U32ToBe(Cardinality(DOMAIN idx.entries))

\* A read_header that asserts neither the signature nor the version.
read_header_lenient(data, pos) ==
    LET length_read(length) ==
            IF ~length.ok THEN Panic
            ELSE [ok |-> TRUE, length |-> U32FromBe(length.buf), pos |-> length.pos]
        version_read(version) ==
            IF ~version.ok THEN Panic ELSE length_read(ReadExact(data, version.pos, 4))
        signature_read(signature) ==
            IF ~signature.ok THEN Panic ELSE version_read(ReadExact(data, signature.pos, 4))
    IN  signature_read(ReadExact(data, pos, 4))

\* Index::read_header.
read_header(data, pos) ==
    LET length_read(length) ==
            IF ~length.ok THEN Panic
            ELSE [ok |-> TRUE, length |-> U32FromBe(length.buf), pos |-> length.pos]
        version_read(version) ==
            IF ~version.ok \/ U32FromBe(version.buf) # VERSION THEN Panic
            ELSE length_read(ReadExact(data, version.pos, 4))
        signature_read(signature) ==
            IF ~signature.ok \/ signature.buf # SIGNATURE THEN Panic
            ELSE version_read(ReadExact(data, signature.pos, 4))
    IN  signature_read(ReadExact(data, pos, 4))

\* The (0..length).map(read_entry).collect() of Index::new.
RECURSIVE read_entries(_, _, _, _)
read_entries(data, pos, n, acc) ==
    IF n = 0 THEN [ok |-> TRUE, entries |-> acc, pos |-> pos]
    ELSE LET entry_read(r) ==
                 IF ~r.ok THEN Panic
                 ELSE read_entries(data, r.pos, n - 1, MapPut(acc, r.entry.path, r.entry))
         IN  entry_read(read_entry(data, pos))

\* An Index::new that does not compare the trailer with the digest.
index_new_unchecked(file) ==
    LET checksum_read(r, sha) ==
            IF ~sha.ok THEN Panic
            ELSE [ok |-> TRUE,
                  index |-> [entries |-> r.entries,
                             parents_to_children |-> construct_parents_cache(r.entries)]]
        entries_read(r) ==
            IF ~r.ok THEN Panic ELSE checksum_read(r, ReadExact(file.data, r.pos, 20))
        header_read(h) ==
            IF ~h.ok THEN Panic
            ELSE entries_read(read_entries(file.data, h.pos, h.length, NoEntries))
    IN  IF ~file.exists THEN [ok |-> TRUE, index |-> EmptyIndex]
        ELSE header_read(read_header(file.data, 0))

\* Index::new on the file [exists, data].
index_new(file) ==
    LET \* num_bytes_so_far is sha.pos; the bytes hashed are those before sha
        checksum_read(r, sha) ==
            IF ~sha.ok THEN Panic
            ELSE IF sha.buf # Sha1(SubSeq(file.data, 1, sha.pos - 20)) THEN Panic
            ELSE [ok |-> TRUE,
                  index |-> [entries |-> r.entries,
                             parents_to_children |-> construct_parents_cache(r.entries)]]
        entries_read(r) ==
            IF ~r.ok THEN Panic ELSE checksum_read(r, ReadExact(file.data, r.pos, 20))
        header_read(h) ==
            IF ~h.ok THEN Panic
            ELSE entries_read(read_entries(file.data, h.pos, h.length, NoEntries))
    IN  IF ~file.exists THEN [ok |-> TRUE, index |-> EmptyIndex]
        ELSE header_read(read_header(file.data, 0))

\* The bytes Index::write_updates hands to write_all.
write_data(idx) ==
    LET \* Checksum: the data written, then the digest of it
        write_checksum(data) == data \o Sha1(data)
        entries_data(keys) == Concat([i \in 1..Len(keys) |-> to_data(idx.entries[keys[i]])])
    IN  write_checksum(get_header(idx) \o entries_data(get_filepaths(idx)))

(***************************************************************************)
(* The paths, addresses and metadata the model adds to the index.          *)
(***************************************************************************)
N_alice  == <<97, 108, 105, 99, 101, 46, 116, 120, 116>>        \* "alice.txt"
N_bob    == <<98, 111, 98, 46, 116, 120, 116>>                  \* "bob.txt"
N_nested == <<110, 101, 115, 116, 101, 100>>                    \* "nested"
N_nested_txt == <<110, 101, 115, 116, 101, 100, 46, 116, 120, 116>>  \* "nested.txt"
N_inner  == <<105, 110, 110, 101, 114>>                         \* "inner"
N_claire == <<99, 108, 97, 105, 114, 101, 46, 116, 120, 116>>   \* "claire.txt"

P_alice        == <<N_alice>>                       \* alice.txt
P_bob          == <<N_bob>>                         \* bob.txt
P_alice_nested == <<N_alice, N_nested_txt>>         \* alice.txt/nested.txt
P_nested       == <<N_nested>>                      \* nested
P_nested_bob   == <<N_nested, N_bob>>               \* nested/bob.txt
P_nested_inner == <<N_nested, N_inner>>             \* nested/inner
P_claire       == <<N_nested, N_inner, N_claire>>   \* nested/inner/claire.txt
P_inner        == <<N_inner>>                       \* inner
P_nested_txt   == <<N_nested_txt>>                  \* nested.txt

Paths == { P_alice, P_bob, P_alice_nested, P_nested, P_nested_bob,
           P_nested_inner, P_claire, P_inner, P_nested_txt }

\* IndexMetadata::default() and the metadata of an executable file.
MetaDefault ==
    [ctime |-> 0, ctime_nsec |-> 0, mtime |-> 0, mtime_nsec |-> 0, dev |-> 0,
     ino |-> 0, mode |-> 0, uid |-> 0, gid |-> 0, size |-> 0]
MetaExec ==
    [ctime |-> 1700000000, ctime_nsec |-> 999999999, mtime |-> 1700000001,
     mtime_nsec |-> 5, dev |-> 2049, ino |-> 131073, mode |-> EXECUTABLE_MODE,
     uid |-> 1000, gid |-> 100, size |-> 2]

\* Sha1::from("").digest(), the address the tests use, and the address of
\* the blob "hi".
OidEmpty == Sha1(<<>>)
OidHi == Sha1(<<98, 108, 111, 98, 32, 50, 0, 104, 105>>)

\* What Index::add is called with.
AddInputs ==
    { [path |-> p, oid |-> OidEmpty, metadata |-> MetaDefault] : p \in Paths }
    \cup { [path |-> p, oid |-> OidHi, metadata |-> MetaExec] : p \in {P_alice, P_claire} }

\* What the processes that also write the index file add.
PersistInputs ==
    { in \in AddInputs : in.path \in {P_alice, P_nested_bob, P_nested_txt} }

(***************************************************************************)
(* Text: decimal and hexadecimal digits.                                   *)
(***************************************************************************)
\* format!("{}", n) of a number.
RECURSIVE Decimal(_)
Decimal(n) == IF n < 10 THEN <<48 + n>> ELSE Decimal(n \div 10) \o <<48 + (n % 10)>>

HexDigit(d) == IF d < 10 THEN 48 + d ELSE 87 + d

\* Digest's Display (to_string): 40 lower-case hexadecimal digits.
ToHex(oid) ==
    [i \in 1..(2 * Len(oid)) |->
        IF i % 2 = 1 THEN HexDigit(oid[(i + 1) \div 2] \div 16)
        ELSE HexDigit(oid[i \div 2] % 16)]

IsHexByte(c) == (c >= 48 /\ c <= 57) \/ (c >= 97 /\ c <= 102) \/ (c >= 65 /\ c <= 70)
HexValue(c) == IF c <= 57 THEN c - 48 ELSE IF c >= 97 THEN c - 87 ELSE c - 55

None == [some |-> FALSE]
Some(v) == [some |-> TRUE, val |-> v]

\* Digest's FromStr (str::parse): 40 hexadecimal digits, or an error.
ParseDigest(text) ==
    IF Len(text) = 40 /\ \A i \in 1..40 : IsHexByte(text[i])
    THEN Some([i \in 1..20 |-> HexValue(text[2 * i - 1]) * 16 + HexValue(text[2 * i])])
    ELSE None

IsSpace(c) == c \in {9, 10, 11, 12, 13, 32}

\* str::trim.
Trim(text) ==
    LET keep == { i \in 1..Len(text) : ~IsSpace(text[i]) }
    IN  IF keep = {} THEN <<>>
        ELSE SubSeq(text, CHOOSE i \in keep : \A j \in keep : i <= j,
                          CHOOSE i \in keep : \A j \in keep : i >= j)

(***************************************************************************)
(* Blob (src/src/blob.rs) and Tree (src/src/tree.rs).  A Blob is           *)
(* [path, oid, content, exec], exec being what is_executable finds on the  *)
(* filesystem; a Tree is [oid, content, entries], a TreeEntry              *)
(* [kind |-> "T", tree] or [kind |-> "B", blob].                           *)
(***************************************************************************)
TEXT_blob == <<98, 108, 111, 98, 32>>        \* "blob "
TEXT_tree == <<116, 114, 101, 101, 32>>        \* "tree "
TREE_EXECUTABLE_MODE == <<49, 48, 48, 55, 53, 53>>       \* "100755"
NON_EXECUTABLE_MODE == <<49, 48, 48, 54, 52, 52>>        \* "100644"
DIRECTORY_MODE == <<52, 48, 48, 48, 48>>             \* "40000"

\* Blob::new.
blob_new(bytes, path, exec) ==
    LET blob(content) == [path |-> path, oid |-> Sha1(content), content |-> content,
                          exec |-> exec]
    IN  blob(TEXT_blob \o Decimal(Len(bytes)) \o <<0>> \o bytes)

\* Tree::default().
DefaultTree == [oid |-> None, content |-> None, entries |-> NoEntries]

\* An add_entry that puts every blob in the root, under its file name.
add_entry_flat(tree, parents, blob) ==
    [ok |-> TRUE,
     tree |-> [tree EXCEPT !.entries =
                   MapPut(@, FileName(blob.path), [kind |-> "B", blob |-> blob])]]

\* Tree::add_entry.
RECURSIVE add_entry(_, _, _)
add_entry(tree, parents, blob) ==
    IF parents = <<>>
    THEN [ok |-> TRUE,
          tree |-> [tree EXCEPT !.entries =
                        MapPut(@, FileName(blob.path), [kind |-> "B", blob |-> blob])]]
    ELSE LET base_dir == parents[1]
             ents == IF base_dir \in DOMAIN tree.entries
                     THEN tree.entries
                     ELSE MapPut(tree.entries, base_dir, [kind |-> "T", tree |-> DefaultTree])
         IN  IF ents[base_dir].kind = "T"
             THEN LET r == add_entry(ents[base_dir].tree, Tail(parents), blob)
                  IN  IF r.ok
                      THEN [ok |-> TRUE,
                            tree |-> [tree EXCEPT !.entries =
                                          MapPut(ents, base_dir, [kind |-> "T", tree |-> r.tree])]]
                      ELSE Panic
             ELSE Panic   \* panic!("supposed to be a tree here!")

\* format!("{mode} {}\0", path.to_string_lossy()).
EntryPrefix(mode, path) == mode \o <<32>> \o PathString(path) \o <<0>>

\* format!("tree {}\0", data.len()) followed by the data.
TreeContent(data) == TEXT_tree \o Decimal(Len(data)) \o <<0>> \o data

\* A build that computes the data of a directory but leaves the oid and the
\* content of its subdirectories unset.
RECURSIVE build_shallow(_)
build_shallow(tree) ==
    LET subtree(k, b) ==
            [entry |-> [kind |-> "T", tree |-> b.tree],
             data |-> EntryPrefix(DIRECTORY_MODE, k) \o Sha1(TreeContent(b.data))]
        built_blob(k, entry) ==
            [entry |-> entry,
             data |-> EntryPrefix(IF entry.blob.exec THEN TREE_EXECUTABLE_MODE
                                  ELSE NON_EXECUTABLE_MODE, k) \o entry.blob.oid]
        collect(keys, built) ==
            [tree |-> [tree EXCEPT !.entries = [k \in DOMAIN tree.entries |-> built[k].entry]],
             data |-> Concat([i \in 1..Len(keys) |-> built[keys[i]].data])]
    IN  collect(SortedPaths(DOMAIN tree.entries),
                [k \in DOMAIN tree.entries |->
                    IF tree.entries[k].kind = "T"
                    THEN subtree(k, build_shallow(tree.entries[k].tree))
                    ELSE built_blob(k, tree.entries[k])])

\* Tree::build: [tree, data], the tree with every subtree's oid and content
\* set, and the concatenated entries' data.
RECURSIVE build(_)
build(tree) ==
    LET \* Entry::Tree: the subtree built, its content and its oid set
        built_tree(k, b, content, oid) ==
            [entry |-> [kind |-> "T",
                        tree |-> [b.tree EXCEPT !.content = Some(content), !.oid = Some(oid)]],
             data |-> EntryPrefix(DIRECTORY_MODE, k) \o oid]
        hashed_tree(k, b, content) == built_tree(k, b, content, Sha1(content))
        subtree(k, b) == hashed_tree(k, b, TreeContent(b.data))
        \* Entry::Blob
        built_blob(k, entry) ==
            [entry |-> entry,
             data |-> EntryPrefix(IF entry.blob.exec THEN TREE_EXECUTABLE_MODE
                                  ELSE NON_EXECUTABLE_MODE, k) \o entry.blob.oid]
        collect(keys, built) ==
            [tree |-> [tree EXCEPT !.entries = [k \in DOMAIN tree.entries |-> built[k].entry]],
             data |-> Concat([i \in 1..Len(keys) |-> built[keys[i]].data])]
    IN  collect(SortedPaths(DOMAIN tree.entries),
                [k \in DOMAIN tree.entries |->
                    IF tree.entries[k].kind = "T"
                    THEN subtree(k, build(tree.entries[k].tree))
                    ELSE built_blob(k, tree.entries[k])])

\* The loop of Tree::new over the sorted blobs.
RECURSIVE add_entries(_, _, _)
add_entries(root, blobs, i) ==
    IF i > Len(blobs) THEN [ok |-> TRUE, tree |-> root]
    ELSE LET added(r) == IF r.ok THEN add_entries(r.tree, blobs, i + 1) ELSE Panic
         IN  added(add_entry(root, get_parent_directories(blobs[i].path), blobs[i]))

\* Ord for Blob, derived: by path, then oid, then content.
BlobLess(a, b) ==
    \/ PathLess(a.path, b.path)
    \/ /\ a.path = b.path
       /\ \/ BytesLess(a.oid, b.oid)
          \/ a.oid = b.oid /\ BytesLess(a.content, b.content)

\* Tree::new with the blobs left in the order given.
sort_blobs_unsorted(blobs) == blobs

\* blobs.sort(): a stable sort of the Vec by the derived order.
sort_blobs(blobs) ==
    LET before(j, i) == \/ BlobLess(blobs[j], blobs[i])
                        \/ ~BlobLess(blobs[i], blobs[j]) /\ j < i
        rank(i) == Cardinality({ j \in 1..Len(blobs) : before(j, i) }) + 1
    IN  [k \in 1..Len(blobs) |-> blobs[CHOOSE i \in 1..Len(blobs) : rank(i) = k]]

\* Tree::new on a Vec of blobs.
tree_new(blobs) ==
    LET hashed(b, content) ==
            [ok |-> TRUE,
             tree |-> [b.tree EXCEPT !.oid = Some(Sha1(content)), !.content = Some(content)]]
        built(b) == hashed(b, TreeContent(b.data))
        added(r) == IF ~r.ok THEN Panic ELSE built(build(r.tree))
    IN  added(add_entries(DefaultTree, sort_blobs(blobs), 1))

\* A traversal that calls f with a directory before its entries.
RECURSIVE traverse_preorder(_, _)
traverse_preorder(tree, at) ==
    LET keys == SortedPaths(DOMAIN tree.entries)
    IN  << [oid |-> tree.oid.val, content |-> tree.content.val, node |-> at] >>
        \o Concat([i \in 1..Len(keys) |->
                  IF tree.entries[keys[i]].kind = "T"
                  THEN traverse_preorder(tree.entries[keys[i]].tree, at \o keys[i])
                  ELSE << [oid |-> tree.entries[keys[i]].blob.oid,
                           content |-> tree.entries[keys[i]].blob.content,
                           node |-> at \o keys[i]] >>])

\* Tree::traverse with f recording what it is called with: the objects in
\* the order visited, each [oid, content] as Object::get_oid/get_content
\* give them, and node, the place in the tree of the node visited.
RECURSIVE traverse(_, _)
traverse(tree, at) ==
    LET keys == SortedPaths(DOMAIN tree.entries)
    IN  Concat([i \in 1..Len(keys) |->
                  LET entry == tree.entries[keys[i]]
                  IN  IF entry.kind = "T"
                      THEN traverse(entry.tree, at \o keys[i])
                      ELSE << [oid |-> entry.blob.oid, content |-> entry.blob.content,
                               node |-> at \o keys[i]] >>])
        \o << [oid |-> tree.oid.val, content |-> tree.content.val, node |-> at] >>

(***************************************************************************)
(* Commit (src/src/commit.rs), Refs (src/src/refs.rs) and Database         *)
(* (src/src/database.rs).                                                  *)
(***************************************************************************)
TEXT_parent == <<112, 97, 114, 101, 110, 116, 32>>      \* "parent "
TEXT_author == <<97, 117, 116, 104, 111, 114, 32>>      \* "author "
TEXT_committer == <<99, 111, 109, 109, 105, 116, 116, 101, 114, 32>>  \* "committer "
TEXT_commit == <<99, 111, 109, 109, 105, 116, 32>>      \* "commit "
TIMEZONE == <<45, 48, 52, 48, 48>>             \* "-0400"
AUTHOR_NAME == <<98, 115, 117, 98, 101, 105>>        \* "bsubei"
AUTHOR_EMAIL ==              \* "6508762+bsubei@users.noreply.github.com"
    <<54, 53, 48, 56, 55, 54, 50, 43, 98, 115, 117, 98, 101, 105, 64, 117, 115, 101, 114, 115, 46, 110, 111, 114, 101, 112, 108, 121, 46, 103, 105, 116, 104, 117, 98, 46, 99, 111, 109>>

\* A Commit::new that writes no parent line.
commit_new_orphan(tree_oid, parent, author_name, author_email, seconds, commit_message) ==
    LET commit(content) == [oid |-> Sha1(content), content |-> content]
        framed(data) == commit(TEXT_commit \o Decimal(Len(data)) \o <<0>> \o data)
        signed(who) ==
            framed(TEXT_tree \o ToHex(tree_oid) \o <<10>>
                   \o TEXT_author \o who \o <<10>>
                   \o TEXT_committer \o who \o <<10, 10>>
                   \o commit_message)
        stamped(formatted_timestamp) ==
            signed(author_name \o <<32, 60>> \o author_email \o <<62, 32>> \o formatted_timestamp)
    IN  stamped(Decimal(seconds) \o <<32>> \o TIMEZONE)

\* Commit::new; seconds is the timestamp's whole seconds since the epoch.
commit_new(tree_oid, parent, author_name, author_email, seconds, commit_message) ==
    LET commit(content) == [oid |-> Sha1(content), content |-> content]
        framed(data) == commit(TEXT_commit \o Decimal(Len(data)) \o <<0>> \o data)
        signed(who) ==
            framed(TEXT_tree \o ToHex(tree_oid) \o <<10>>
                   \o (IF parent.some THEN TEXT_parent \o ToHex(parent.val) \o <<10>> ELSE <<>>)
                   \o TEXT_author \o who \o <<10>>
                   \o TEXT_committer \o who \o <<10, 10>>
                   \o commit_message)
        stamped(formatted_timestamp) ==
            signed(author_name \o <<32, 60>> \o author_email \o <<62, 32>> \o formatted_timestamp)
    IN  stamped(Decimal(seconds) \o <<32>> \o TIMEZONE)

\* Refs::read_head on the HEAD file [exists, data].
read_head(file) == IF ~file.exists THEN None ELSE ParseDigest(Trim(file.data))

\* The object's file in Database::write_object: <<directory, file name>>,
\* the first two hexadecimal digits of the address and the other 38.
object_path(oid) ==
    LET split(hex) == << SubSeq(hex, 1, 2), SubSeq(hex, 3, 40) >>
    IN  split(ToHex(oid))

\* ZlibEncoder at Compression::fast(): a stand-in that keeps the zlib
\* framing (two header bytes, the payload, a four-byte check of the input).
Deflate(content) == <<120, 1>> \o content \o SubSeq(Sha1(content), 1, 4)

\* An open with create(true).truncate(true) in place of create_new(true).
open_truncate(files, path) == [ok |-> TRUE, files |-> MapPut(files, path, <<>>)]

\* File::options().create_new(true).write(true).open(object_path): the file
\* is created empty, or the open fails with AlreadyExists.
open_create_new(files, path) ==
    IF path \in DOMAIN files
    THEN [ok |-> FALSE, files |-> files]
    ELSE [ok |-> TRUE, files |-> MapPut(files, path, <<>>)]

\* A write_object that opens the object's file for appending.
write_object_append(files, oid, content) ==
    IF object_path(oid) \in DOMAIN files
    THEN MapPut(files, object_path(oid), files[object_path(oid)] \o Deflate(content))
    ELSE MapPut(files, object_path(oid), Deflate(content))

\* Database::write_object, from the open to the return: the files of the
\* store afterwards.
write_object(files, oid, content) ==
    LET opened(r) ==
            IF ~r.ok THEN files   \* AlreadyExists: return
            ELSE MapPut(r.files, object_path(oid), Deflate(content))
    IN  opened(open_create_new(files, object_path(oid)))

(***************************************************************************)
(* The process that uses the index: Index::new, Index::add any number of   *)
(* times, Index::write_updates (File::create, then write_all), exit.       *)
(***************************************************************************)
NoFile == [exists |-> FALSE, data |-> <<>>]
NoAdd == [path |-> <<>>, oid |-> <<>>, metadata |-> MetaDefault]
Index == [entries |-> entries, parents_to_children |-> parents_to_children]

InitIndex ==
    /\ pc = "idle"
    /\ entries = NoEntries
    /\ parents_to_children = NoEntries
    /\ nadds = 0
    /\ nwrites = 0
    /\ fresh = FALSE
    /\ lastAdd = NoAdd
    /\ lastWritten = [valid |-> FALSE, entries |-> NoEntries]

InitCommit ==
    /\ head = NoFile
    /\ cpc = "idle"
    /\ root_tree = DefaultTree
    /\ to_store = <<>>
    /\ stored = 0
    /\ phase = "none"
    /\ ncommits = 0
    /\ commits = NoEntries
    /\ lastStore = "none"

\* No function is called on its own.
NoCall == [fn |-> "none"]

\* The processes that run the add command, and one that has not started:
\* pc is where it stands, result how it ended, args the paths given on its
\* command line, index its Index, todo the
\* expanded file paths not yet added, blob the Blob of the file at hand;
\* stores counts its Database::store calls, added holds the paths it gave
\* to Index::add, wrote tells whether it has opened the index file for
\* writing, seen holds the runs that had written the index when this one
\* loaded it and after those that had when this one wrote it.
Runs == {1, 2}
IdleRun ==
    [pc |-> "idle", result |-> "none", args |-> <<>>, index |-> EmptyIndex, todo |-> <<>>,
     blob |-> [path |-> <<>>], stores |-> 0, added |-> {}, wrote |-> FALSE,
     seen |-> {}, after |-> {}]

InitCall ==
    /\ call = NoCall
    /\ ret = NoCall
    /\ runs = [p \in Runs |-> IdleRun]

\* A fresh repository (after init) with an empty working directory.
Init ==
    /\ InitIndex
    /\ InitCommit
    /\ InitCall
    /\ indexFile = NoFile
    /\ workspace = NoEntries
    /\ objects = NoEntries

\* Index::new returns.
IndexNew ==
    /\ pc = "idle"
    /\ \E r \in {index_new(indexFile)} :
          /\ r.ok
          /\ entries' = r.index.entries
          /\ parents_to_children' = r.index.parents_to_children
    /\ pc' = "loaded"
    /\ fresh' = TRUE
    /\ UNCHANGED <<indexFile, nadds, nwrites, lastAdd, lastWritten, cvars, hvars>>

\* Index::new panics: the process ends.
IndexNewPanic ==
    /\ pc = "idle"
    /\ ~index_new(indexFile).ok
    /\ pc' = "panicked"
    /\ UNCHANGED <<entries, parents_to_children, indexFile, nadds, nwrites, fresh, lastAdd, lastWritten, cvars, hvars>>

\* Index::add(path, oid, metadata), with one of the inputs and while fewer
\* than bound calls were made.
AddOf(inputs, bound) ==
    /\ pc = "loaded"
    /\ nadds < bound
    /\ \E in \in inputs :
         \E order \in Orders(children_of(discard_parents(Index, in.path), in.path)) :
            \E idx \in {add(Index, in.path, in.oid, in.metadata, order)} :
                /\ entries' = idx.entries
                /\ parents_to_children' = idx.parents_to_children
                /\ lastAdd' = in
    /\ nadds' = nadds + 1
    /\ fresh' = FALSE
    /\ UNCHANGED <<pc, indexFile, nwrites, lastWritten, cvars, hvars>>

Add == AddOf(AddInputs, MaxAdds)

\* Index::write_updates, File::create: the file is created or truncated.
WriteCreate ==
    /\ pc = "loaded"
    /\ nwrites < MaxWrites
    /\ nwrites' = nwrites + 1
    /\ indexFile' = [exists |-> TRUE, data |-> <<>>]
    /\ pc' = "writing"
    /\ UNCHANGED <<entries, parents_to_children, nadds, fresh, lastAdd, lastWritten, cvars, hvars>>

\* Index::write_updates, write_all succeeds; the process exits.
WriteAll ==
    /\ pc = "writing"
    /\ indexFile' = [exists |-> TRUE, data |-> write_data(Index)]
    /\ lastWritten' = [valid |-> TRUE, entries |-> entries]
    /\ pc' = "idle"
    /\ entries' = NoEntries
    /\ parents_to_children' = NoEntries
    /\ fresh' = FALSE
    /\ lastAdd' = NoAdd
    /\ UNCHANGED <<nadds, nwrites, cvars, hvars>>

\* Index::write_updates, write_all fails after part of the data (nothing,
\* the header, all but the trailer): the expect panics, the process ends.
WriteAllFails ==
    /\ pc = "writing"
    /\ \E data \in {write_data(Index)} :
          \E k \in {0, 12, Len(data) - 20} :
              indexFile' = [exists |-> TRUE, data |-> SubSeq(data, 1, k)]
    /\ pc' = "idle"
    /\ entries' = NoEntries
    /\ parents_to_children' = NoEntries
    /\ fresh' = FALSE
    /\ lastAdd' = NoAdd
    /\ UNCHANGED <<nadds, nwrites, lastWritten, cvars, hvars>>

\* The index in memory: Index::new where no file exists, then Index::add.
Next == IndexNew \/ Add

Spec == Init /\ [][Next]_vars

\* The index and its file: processes that load, add, and write, in turn.
PersistAdd == AddOf(PersistInputs, MaxPersistAdds)

NextPersist ==
    IndexNew \/ IndexNewPanic \/ PersistAdd \/ WriteCreate \/ WriteAll \/ WriteAllFails

SpecPersist == Init /\ [][NextPersist]_vars

(***************************************************************************)
(* The commit command (main, "commit"): Index::new, a Blob of every        *)
(* tracked file, Tree::new, Database::store of every object Tree::traverse *)
(* visits, Refs::read_head, Commit::new, Database::store of the commit,    *)
(* Refs::update_head.  Every file system call that changes the repository  *)
(* is a step of its own.                                                   *)
(***************************************************************************)
P_inner_bob == <<N_inner, N_bob>>                   \* inner/bob.txt
DataHi == <<104, 105>>                              \* "hi"
DataBye == <<98, 121, 101>>                         \* "bye"
MessageFirst == <<102, 105, 114, 115, 116, 10>>     \* "first\n", what read_line reads
MessageParent == TEXT_parent \o <<109, 101, 10>>     \* "parent me\n"
\* The lines read_line may read from the standard input.
Messages == {MessageFirst, MessageParent}

\* impl From<fs::Metadata> for IndexMetadata, of a file [data, exec] (the
\* times, device, inode and owner of the model's files are 0).
metadata_from(file) ==
    [MetaDefault EXCEPT !.mode = IF file.exec THEN EXECUTABLE_MODE ELSE REGULAR_MODE,
                        !.size = Len(file.data)]

\* The loop of the add command over the expanded file paths: Blob::new and
\* Index::add of each (the store of the blob aside).
RECURSIVE add_files(_, _, _, _)
add_files(idx, ws, paths, i) ==
    IF i > Len(paths) THEN idx
    ELSE LET staged(p, blob) ==
                 add(idx, p, blob.oid, metadata_from(ws[p]),
                     SortedPaths(children_of(discard_parents(idx, p), p)))
             file(p) == staged(p, blob_new(ws[p].data, p, ws[p].exec))
         IN  add_files(file(paths[i]), ws, paths, i + 1)

\* The index file an add command leaves that adds the files of ws.
staged_file(ws) ==
    IF DOMAIN ws = {} THEN NoFile
    ELSE [exists |-> TRUE,
          data |-> write_data(add_files(EmptyIndex, ws, SortedPaths(DOMAIN ws), 1))]

File(data, exec) == [data |-> data, exec |-> exec]

\* The object files that add command leaves: database.store of the Blob of
\* every file.
staged_objects(ws) ==
    LET stored_blobs(blobs) ==
            [a \in { object_path(b.oid) : b \in blobs } |->
                Deflate((CHOOSE b \in blobs : object_path(b.oid) = a).content)]
    IN  stored_blobs({ blob_new(ws[p].data, p, ws[p].exec) : p \in DOMAIN ws })

\* The repositories the commit command runs in: staged is the working
\* directory an earlier add command saw, files the one the commit sees.
Scenarios ==
    { \* two files with the same content
      [staged |-> (P_alice :> File(DataHi, FALSE)) @@ (P_bob :> File(DataHi, FALSE)),
       files  |-> (P_alice :> File(DataHi, FALSE)) @@ (P_bob :> File(DataHi, FALSE))],
      \* nested directories
      [staged |-> (P_alice :> File(<<>>, FALSE)) @@ (P_nested_bob :> File(DataHi, TRUE))
                  @@ (P_claire :> File(<<>>, FALSE)),
       files  |-> (P_alice :> File(<<>>, FALSE)) @@ (P_nested_bob :> File(DataHi, TRUE))
                  @@ (P_claire :> File(<<>>, FALSE))],
      \* two directories with the same content
      [staged |-> (P_nested_bob :> File(DataHi, FALSE)) @@ (P_inner_bob :> File(DataHi, FALSE)),
       files  |-> (P_nested_bob :> File(DataHi, FALSE)) @@ (P_inner_bob :> File(DataHi, FALSE))],
      \* nothing staged
      [staged |-> NoEntries,
       files  |-> (P_alice :> File(DataHi, FALSE))],
      \* staged files changed since
      [staged |-> (P_alice :> File(<<>>, FALSE)) @@ (P_nested_bob :> File(<<>>, FALSE)),
       files  |-> (P_alice :> File(DataHi, FALSE)) @@ (P_nested_bob :> File(DataBye, TRUE))],
      \* a staged file deleted since
      [staged |-> (P_alice :> File(DataHi, FALSE)) @@ (P_bob :> File(<<>>, FALSE)),
       files  |-> (P_bob :> File(<<>>, FALSE))] }

\* The times SystemTime::now() gives, in seconds since the epoch.
Times == {1700000000, 1700000060}

\* The line read_line reads for the commit made at a time: one of Messages.
MessageAt(seconds) == IF seconds = 1700000000 THEN MessageFirst ELSE MessageParent

\* The commit command up to Tree::new: the index is loaded, every tracked
\* file read and made a Blob, the tree built.
commit_prepare(file, ws) ==
    LET built(t) == IF ~t.ok THEN Panic ELSE [ok |-> TRUE, tree |-> t.tree]
        \* ws.read_file(f).expect("Could not read file")
        tracked(files) ==
            IF \E i \in 1..Len(files) : files[i] \notin DOMAIN ws THEN Panic
            ELSE built(tree_new([i \in 1..Len(files) |->
                                   blob_new(ws[files[i]].data, files[i], ws[files[i]].exec)]))
        loaded(r) == IF ~r.ok THEN Panic ELSE tracked(get_filepaths(r.index))
    IN  loaded(index_new(file))

InitCommand ==
    /\ InitIndex
    /\ InitCommit
    /\ InitCall
    /\ \E sc \in Scenarios :
          /\ workspace = sc.files
          /\ indexFile = staged_file(sc.staged)
          /\ objects = staged_objects(sc.staged)

\* The command starts: everything up to root_tree.traverse.
CommitStart ==
    /\ cpc = "idle"
    /\ ncommits < MaxCommits
    /\ \E r \in {commit_prepare(indexFile, workspace)} :
          /\ r.ok
          /\ root_tree' = r.tree
          /\ to_store' = traverse(r.tree, <<>>)
    /\ stored' = 0
    /\ phase' = "tree"
    /\ cpc' = "store"
    /\ ncommits' = ncommits + 1
    /\ UNCHANGED <<ivars, hvars, indexFile, workspace, objects, head, commits, lastStore>>

\* The command panics before it stores anything.
CommitStartPanics ==
    /\ cpc = "idle"
    /\ ncommits < MaxCommits
    /\ ~commit_prepare(indexFile, workspace).ok
    /\ cpc' = "panicked"
    /\ ncommits' = ncommits + 1
    /\ UNCHANGED <<ivars, hvars, indexFile, workspace, objects, head, root_tree, to_store, stored,
                   phase, commits, lastStore>>

\* The process ends: its locals are gone.
Exit ==
    /\ cpc' = "idle"
    /\ root_tree' = DefaultTree
    /\ to_store' = <<>>
    /\ stored' = 0
    /\ phase' = "none"

\* The object Database::store is called with next.
Storing == to_store[stored + 1]

\* Database::write_object: the object's file exists already, return.
StoreExists ==
    /\ cpc = "store"
    /\ stored < Len(to_store)
    /\ ~open_create_new(objects, object_path(Storing.oid)).ok
    /\ stored' = stored + 1
    /\ lastStore' = "exists"
    /\ UNCHANGED <<ivars, hvars, indexFile, workspace, objects, head, cpc, root_tree, to_store,
                   phase, ncommits, commits>>

\* Database::write_object: the object's file is created, empty.
StoreCreate ==
    /\ cpc = "store"
    /\ stored < Len(to_store)
    /\ \E r \in {open_create_new(objects, object_path(Storing.oid))} :
          /\ r.ok
          /\ objects' = r.files
    /\ cpc' = "store_write"
    /\ UNCHANGED <<ivars, hvars, indexFile, workspace, head, root_tree, to_store, stored, phase,
                   ncommits, commits, lastStore>>

\* Database::write_object: write_all of the deflated content.
StoreWrite ==
    /\ cpc = "store_write"
    /\ objects' = MapPut(objects, object_path(Storing.oid), Deflate(Storing.content))
    /\ stored' = stored + 1
    /\ lastStore' = "written"
    /\ cpc' = "store"
    /\ UNCHANGED <<ivars, hvars, indexFile, workspace, head, root_tree, to_store, phase, ncommits,
                   commits>>

\* Database::write_object: write_all fails after nothing or half of the
\* data; the expect panics and the process ends.
StoreWriteFails ==
    /\ cpc = "store_write"
    /\ \E data \in {Deflate(Storing.content)} :
          \E k \in {0, Len(data) \div 2} :
              objects' = MapPut(objects, object_path(Storing.oid), SubSeq(data, 1, k))
    /\ lastStore' = "failed"
    /\ Exit
    /\ UNCHANGED <<ivars, hvars, indexFile, workspace, head, ncommits, commits>>

\* After the traversal: read_line, Refs::read_head, Commit::new.
MakeCommit ==
    /\ cpc = "store"
    /\ phase = "tree"
    /\ stored = Len(to_store)
    /\ \E seconds \in Times, parent_ref \in {read_head(head)} :
         \E commit_message \in {MessageAt(seconds)} :
           \E commit \in {commit_new(root_tree.oid.val, parent_ref, AUTHOR_NAME, AUTHOR_EMAIL,
                                     seconds, commit_message)} :
              /\ to_store' = << [oid |-> commit.oid, content |-> commit.content,
                                 node |-> <<>>] >>
              /\ commits' = MapPut(commits, commit.oid,
                                   [tree |-> root_tree.oid.val, parent |-> parent_ref])
    /\ stored' = 0
    /\ phase' = "commit"
    /\ UNCHANGED <<ivars, hvars, indexFile, workspace, objects, head, cpc, root_tree, ncommits,
                   lastStore>>

\* stdin().read_line fails: main returns the error, the process ends.
ReadLineFails ==
    /\ cpc = "store"
    /\ phase = "tree"
    /\ stored = Len(to_store)
    /\ Exit
    /\ UNCHANGED <<ivars, hvars, indexFile, workspace, objects, head, ncommits, commits, lastStore>>

\* A commit command that calls update_head before it stores the commit.
UpdateHeadEarly ==
    /\ cpc = "store"
    /\ phase = "commit"
    /\ stored = 0
    /\ head' = [exists |-> TRUE, data |-> <<>>]
    /\ cpc' = "head_write"
    /\ UNCHANGED <<ivars, hvars, indexFile, workspace, objects, root_tree, to_store, stored, phase,
                   ncommits, commits, lastStore>>

\* Refs::update_head: HEAD is opened, created or truncated.
UpdateHeadOpen ==
    /\ cpc = "store"
    /\ phase = "commit"
    /\ stored = Len(to_store)
    /\ head' = [exists |-> TRUE, data |-> <<>>]
    /\ cpc' = "head_write"
    /\ UNCHANGED <<ivars, hvars, indexFile, workspace, objects, root_tree, to_store, stored, phase,
                   ncommits, commits, lastStore>>

\* Refs::update_head: write_all of the commit's address; the command ends.
UpdateHeadWrite ==
    /\ cpc = "head_write"
    /\ head' = [exists |-> TRUE, data |-> ToHex(to_store[1].oid)]
    /\ Exit
    /\ UNCHANGED <<ivars, hvars, indexFile, workspace, objects, ncommits, commits, lastStore>>

\* Refs::update_head: write_all fails; the expect panics, HEAD stays empty.
UpdateHeadWriteFails ==
    /\ cpc = "head_write"
    /\ Exit
    /\ UNCHANGED <<ivars, hvars, indexFile, workspace, objects, head, ncommits, commits, lastStore>>

NextCommit ==
    \/ CommitStart \/ CommitStartPanics
    \/ StoreExists \/ StoreCreate \/ StoreWrite \/ StoreWriteFails
    \/ ReadLineFails \/ MakeCommit
    \/ UpdateHeadOpen \/ UpdateHeadWrite \/ UpdateHeadWriteFails

SpecCommit == InitCommand /\ [][NextCommit]_vars

(***************************************************************************)
(* Index::new called on its own, on index files whole and damaged.         *)
(***************************************************************************)
\* What std::fs::read(&path) gives Index::new: the file, or Err, when there
\* is no file and when the file is there but reading it fails (error).
fs_read(file, error) == IF ~file.exists \/ error THEN NoFile ELSE file

\* The indexes whose files are read: one entry, and two.
IndexOne == add(EmptyIndex, P_alice, OidHi, MetaExec, <<>>)
IndexTwo == add(IndexOne, P_nested_bob, OidEmpty, MetaDefault, <<>>)

\* The header and the entries of the file write_updates writes, without
\* the trailer.
Body(idx) == SubSeq(write_data(idx), 1, Len(write_data(idx)) - 20)

\* Where the NUL bytes after the paths are in that file: the terminator and
\* the padding of every entry.
RECURSIVE pad_positions(_, _, _, _)
pad_positions(idx, keys, i, start) ==
    IF i > Len(keys) THEN {}
    ELSE ((start + 62 + Len(PathString(keys[i])) + 1)
              ..(start + Len(to_data(idx.entries[keys[i]]))))
         \cup pad_positions(idx, keys, i + 1, start + Len(to_data(idx.entries[keys[i]])))

Pad(idx) == pad_positions(idx, get_filepaths(idx), 1, 12)

\* The data with the byte at i changed.
Flip(data, i) == [data EXCEPT ![i] = (@ + 1) % 256]

\* An index file to load: the file, what was done to it (kind, at), the
\* length of its header and entries, and where its padding is.
LoadCase(data, kind, at, idx) ==
    [file |-> [exists |-> TRUE, data |-> data], kind |-> kind, at |-> at,
     body_len |-> Len(Body(idx)), pad |-> Pad(idx)]

\* The files of an index: as written; with one byte changed; with one byte
\* of the header or the entries changed and the trailer computed anew; cut
\* short; with bytes after the trailer.
CasesOf(idx) ==
    {LoadCase(write_data(idx), "written", 0, idx)}
    \cup { LoadCase(Flip(write_data(idx), i), "changed", i, idx) :
               i \in 1..Len(write_data(idx)) }
    \cup { LoadCase(Flip(Body(idx), i) \o Sha1(Flip(Body(idx), i)), "rewritten", i, idx) :
               i \in 1..Len(Body(idx)) }
    \cup { LoadCase(SubSeq(write_data(idx), 1, k), "cut", k, idx) :
               k \in {0, 3, 12, Len(Body(idx)), Len(write_data(idx)) - 1} }
    \cup {LoadCase(write_data(idx) \o <<0, 7>>, "extended", Len(write_data(idx)), idx)}

LoadCases ==
    {[file |-> NoFile, kind |-> "absent", at |-> 0, body_len |-> 0, pad |-> {}]}
    \cup {LoadCase(write_data(EmptyIndex), "written", 0, EmptyIndex)}
    \cup CasesOf(IndexOne)
    \cup { c \in CasesOf(IndexTwo) : c.kind # "changed" }

\* Index::new is called: on one of the files, which can be read or not.
CallIndexNew ==
    /\ call = NoCall
    /\ \E c \in LoadCases, error \in BOOLEAN :
          /\ error => c.file.exists
          /\ call' = [fn |-> "Index::new", case |-> c, read_error |-> error]
          /\ ret' = index_new(fs_read(c.file, error))
    /\ UNCHANGED <<ivars, indexFile, cvars, runs>>

NextIndexNew == CallIndexNew

SpecIndexNew == Init /\ [][NextIndexNew]_vars

(***************************************************************************)
(* Tree::new called on its own, on Vecs of blobs in every order.           *)
(***************************************************************************)
MaxBlobs == 3

\* The blobs given to Tree::new: two contents for one path, a file named as
\* a directory of another blob, files at three depths; whether a path is
\* executable is a property of the path in the file system.
BlobUniverse ==
    { blob_new(DataHi, P_alice, FALSE), blob_new(DataBye, P_alice, FALSE),
      blob_new(DataHi, P_bob, FALSE), blob_new(DataHi, P_nested_bob, TRUE),
      blob_new(DataBye, P_claire, FALSE), blob_new(DataHi, P_nested, FALSE) }

\* Vecs of distinct blobs, of up to MaxBlobs.
BlobVecs ==
    UNION { { v \in [1..n -> BlobUniverse] : \A i, j \in 1..n : v[i] = v[j] => i = j } :
            n \in 0..MaxBlobs }

CallTreeNew ==
    /\ call = NoCall
    /\ \E blobs \in BlobVecs :
          /\ call' = [fn |-> "Tree::new", blobs |-> blobs]
          /\ ret' = tree_new(blobs)
    /\ UNCHANGED <<ivars, indexFile, cvars, runs>>

NextTreeNew == CallTreeNew
SpecTreeNew == Init /\ [][NextTreeNew]_vars

(***************************************************************************)
(* IndexEntry::to_data called on its own, on entries with paths of many    *)
(* lengths.                                                                *)
(***************************************************************************)
MaxPathLen == 48

\* A file name of n letters.
Letters(n) == [i \in 1..n |-> 97]

\* A path whose text is n bytes long, n around MAX_PATH_SIZE: sixteen
\* directories of 250 letters and a file name.
LongPath(n) == [i \in 1..17 |-> IF i <= 16 THEN Letters(250) ELSE Letters(n - 4016)]

\* The paths of the entries serialized: every length up to MaxPathLen at the
\* top level and in a directory, the lengths around MAX_PATH_SIZE, and file
\* names that are not UTF-8 (walkdir yields the names the file system has).
ToDataPaths ==
    { <<Letters(n)>> : n \in 1..MaxPathLen }
        \cup { <<N_nested, Letters(n)>> : n \in 1..MaxPathLen }
        \cup { LongPath(n) : n \in (MAX_PATH_SIZE - 2)..(MAX_PATH_SIZE + 2) }
        \cup { << <<255>> >>, <<N_nested, <<98, 255, 98>> >> }

CallToData ==
    /\ call = NoCall
    /\ \E path \in ToDataPaths, metadata \in {MetaDefault, MetaExec} :
          \E entry \in {[path |-> path, oid |-> OidHi, metadata |-> metadata]} :
              /\ call' = [fn |-> "IndexEntry::to_data", entry |-> entry]
              /\ ret' = to_data(entry)
    /\ UNCHANGED <<ivars, indexFile, cvars, runs>>

\* IndexEntry::read_entry on a cursor at the start of the bytes to_data gave.
CallReadEntry ==
    /\ call.fn = "IndexEntry::to_data"
    /\ call' = [fn |-> "IndexEntry::read_entry", entry |-> call.entry, data |-> ret]
    /\ ret' = read_entry(ret, 0)
    /\ UNCHANGED <<ivars, indexFile, cvars, runs>>

NextToData == CallToData \/ CallReadEntry
SpecToData == Init /\ [][NextToData]_vars

(***************************************************************************)
(* Database::store called on its own, on objects in any order and any      *)
(* number of times.                                                        *)
(***************************************************************************)
MaxStores == 3

\* The objects stored: three blobs, a tree and a commit on it.
StoreObjects ==
    LET object(o) == [oid |-> o.oid, content |-> o.content]
        tree == tree_new(<< blob_new(DataHi, P_alice, FALSE) >>).tree
    IN  { object(blob_new(DataHi, P_alice, FALSE)),
          object(blob_new(DataBye, P_bob, FALSE)),
          object(blob_new(<<>>, P_bob, FALSE)),
          [oid |-> tree.oid.val, content |-> tree.content.val],
          object(commit_new(tree.oid.val, None, AUTHOR_NAME, AUTHOR_EMAIL, 1700000000,
                            MessageFirst)) }

\* The objects stored so far, in the order of the calls.
Stored == IF call = NoCall THEN <<>> ELSE call.objects

CallStore ==
    /\ Len(Stored) < MaxStores
    /\ \E object \in StoreObjects :
          /\ call' = [fn |-> "Database::store", objects |-> Append(Stored, object)]
          /\ objects' = write_object(objects, object.oid, object.content)
    /\ UNCHANGED <<ivars, indexFile, workspace, head, cpc, root_tree, to_store, stored, phase,
                   ncommits, commits, lastStore, ret, runs>>

NextStore == CallStore
SpecStore == Init /\ [][NextStore]_vars

(***************************************************************************)
(* The add command (src/src/main.rs 109-177), run by the processes of      *)
(* Runs on one repository: Index::new, the expansion of the input paths,   *)
(* for every file Database::store of its Blob and then Index::add, and     *)
(* Index::write_updates.  A process takes a step of its own at every       *)
(* access to the index file or the object store.                           *)
(***************************************************************************)
MaxInputs == 2

\* The working directory of the add commands.
AddWorkspace ==
    (P_alice :> File(DataHi, FALSE)) @@ (P_bob :> File(DataBye, FALSE))
        @@ (P_nested_bob :> File(DataHi, TRUE))

\* Workspace::list_files: the files at or beneath the path, or the error of
\* canonicalize when nothing is there.
list_files(ws, filepath) ==
    LET found(files) ==
            IF files = {} /\ filepath # <<>> THEN [ok |-> FALSE]
            ELSE [ok |-> TRUE, files |-> SortedPaths(files)]
    IN  found({ f \in DOMAIN ws :
                  Len(filepath) <= Len(f) /\ SubSeq(f, 1, Len(filepath)) = filepath })

\* expanded_filepaths: list_files of every input path, collected into one
\* Result and concatenated.
RECURSIVE expand(_, _, _)
expand(ws, input_filepaths, i) ==
    IF i > Len(input_filepaths) THEN [ok |-> TRUE, files |-> <<>>]
    ELSE LET both(first, rest) ==
                 IF ~rest.ok THEN [ok |-> FALSE]
                 ELSE [ok |-> TRUE, files |-> first.files \o rest.files]
             listed(first) ==
                 IF ~first.ok THEN [ok |-> FALSE]
                 ELSE both(first, expand(ws, input_filepaths, i + 1))
         IN  listed(list_files(ws, input_filepaths[i]))

\* The paths given on the command line: up to MaxInputs of a file, a
\* directory and a path where nothing is; none stands for the root path.
InputVecs ==
    UNION { [1..n -> {P_alice, P_nested, P_inner}] : n \in 0..MaxInputs }

InputsOf(p) == IF p = 1 THEN InputVecs ELSE { <<P_bob>> }

\* input_filepaths, the root path pushed when empty.
input_filepaths(args) == IF args = <<>> THEN << <<>> >> ELSE args

\* The runs that have written the index file and exited.
Written == { q \in Runs : runs[q].result = "done" }

\* What an add step leaves alone but the index file, the object store and
\* the runs.
AddFrame == <<ivars, workspace, head, cpc, root_tree, to_store, stored, phase, ncommits,
              commits, lastStore, call, ret>>

\* The command starts: the index is loaded and the input paths expanded.
AddStart(p) ==
    /\ runs[p].pc = "idle"
    /\ \E args \in InputsOf(p), r \in {index_new(indexFile)} :
          \E x \in {expand(workspace, input_filepaths(args), 1)} :
              /\ r.ok
              /\ x.ok
              /\ runs' = [runs EXCEPT ![p].pc = "loop", ![p].args = args,
                                      ![p].index = r.index,
                                      ![p].todo = x.files, ![p].seen = Written]
    /\ UNCHANGED <<AddFrame, indexFile, objects>>

\* Index::new panics.
AddLoadPanics(p) ==
    /\ runs[p].pc = "idle"
    /\ ~index_new(indexFile).ok
    /\ runs' = [runs EXCEPT ![p].pc = "exit", ![p].result = "panicked"]
    /\ UNCHANGED <<AddFrame, indexFile, objects>>

\* An expansion that stores the blob of the first file found before it
\* meets the path that fails.
AddExpandFailsLate(p) ==
    /\ runs[p].pc = "idle"
    /\ index_new(indexFile).ok
    /\ \E args \in InputsOf(p) :
          /\ ~expand(workspace, input_filepaths(args), 1).ok
          /\ \E first \in {list_files(workspace, input_filepaths(args)[1])} :
                IF first.ok
                THEN \E blob \in {blob_new(workspace[first.files[1]].data, first.files[1], FALSE)} :
                        /\ objects' = write_object(objects, blob.oid, blob.content)
                        /\ runs' = [runs EXCEPT ![p].pc = "exit", ![p].result = "fatal128",
                                                ![p].args = args, ![p].stores = 1]
                ELSE /\ objects' = objects
                     /\ runs' = [runs EXCEPT ![p].pc = "exit", ![p].result = "fatal128",
                                             ![p].args = args]
    /\ UNCHANGED <<AddFrame, indexFile>>

\* The expansion of an input path fails: "fatal: pathspec ..." and
\* std::process::exit(128).
AddExpandFails(p) ==
    /\ runs[p].pc = "idle"
    /\ index_new(indexFile).ok
    /\ \E args \in InputsOf(p) :
          /\ ~expand(workspace, input_filepaths(args), 1).ok
          /\ runs' = [runs EXCEPT ![p].pc = "exit", ![p].result = "fatal128",
                                  ![p].args = args]
    /\ UNCHANGED <<AddFrame, indexFile, objects>>

\* A loop that does not store the blob.
AddStoreSkipped(p) ==
    /\ runs[p].pc = "loop"
    /\ runs[p].todo # <<>>
    /\ \E path \in {Head(runs[p].todo)} :
          runs' = [runs EXCEPT ![p].pc = "add",
                               ![p].blob = blob_new(workspace[path].data, path,
                                                    workspace[path].exec)]
    /\ UNCHANGED <<AddFrame, indexFile, objects>>

\* The loop: read_file, stat_file, Blob::new and database.store(&blob).
AddStore(p) ==
    /\ runs[p].pc = "loop"
    /\ runs[p].todo # <<>>
    /\ \E path \in {Head(runs[p].todo)} :
          \E blob \in {blob_new(workspace[path].data, path, workspace[path].exec)} :
              /\ objects' = write_object(objects, blob.oid, blob.content)
              /\ runs' = [runs EXCEPT ![p].pc = "add", ![p].blob = blob,
                                      ![p].stores = @ + 1]
    /\ UNCHANGED <<AddFrame, indexFile>>

\* The loop: read_file or stat_file fails and the expect panics.
AddFileFails(p) ==
    /\ runs[p].pc = "loop"
    /\ runs[p].todo # <<>>
    /\ runs' = [runs EXCEPT ![p].pc = "exit", ![p].result = "panicked"]
    /\ UNCHANGED <<AddFrame, indexFile, objects>>

\* The loop: index.add of the file whose blob was stored.
AddIndex(p) ==
    /\ runs[p].pc = "add"
    /\ \E path \in {runs[p].blob.path} :
         \E order \in Orders(children_of(discard_parents(runs[p].index, path), path)) :
            runs' = [runs EXCEPT ![p].pc = "loop",
                                 ![p].index = add(@, path, runs[p].blob.oid,
                                                  metadata_from(workspace[path]), order),
                                 ![p].todo = Tail(@),
                                 ![p].added = @ \cup {path}]
    /\ UNCHANGED <<AddFrame, indexFile, objects>>

\* A write_updates that first loads the index file again and takes over
\* the entries it has not itself.
AddWriteCreateMerging(p) ==
    /\ runs[p].pc = "loop"
    /\ runs[p].todo = <<>>
    /\ \E r \in {index_new(indexFile)} :
          \E theirs \in {IF r.ok THEN r.index.entries ELSE NoEntries} :
              runs' = [runs EXCEPT ![p].pc = "writing", ![p].wrote = TRUE,
                          ![p].index.entries =
                              [k \in DOMAIN @ \cup DOMAIN theirs |->
                                  IF k \in DOMAIN @ THEN @[k] ELSE theirs[k]]]
    /\ indexFile' = [exists |-> TRUE, data |-> <<>>]
    /\ UNCHANGED <<AddFrame, objects>>

\* index.write_updates(), File::create: the index file is created or
\* truncated.
AddWriteCreate(p) ==
    /\ runs[p].pc = "loop"
    /\ runs[p].todo = <<>>
    /\ runs' = [runs EXCEPT ![p].pc = "writing", ![p].wrote = TRUE]
    /\ indexFile' = [exists |-> TRUE, data |-> <<>>]
    /\ UNCHANGED <<AddFrame, objects>>

\* index.write_updates(), write_all; the command ends.
AddWriteAll(p) ==
    /\ runs[p].pc = "writing"
    /\ indexFile' = [exists |-> TRUE, data |-> write_data(runs[p].index)]
    /\ runs' = [runs EXCEPT ![p].pc = "exit", ![p].result = "done", ![p].after = Written]
    /\ UNCHANGED <<AddFrame, objects>>

\* index.write_updates(), write_all fails before it has written anything.
AddWriteFails(p) ==
    /\ runs[p].pc = "writing"
    /\ runs' = [runs EXCEPT ![p].pc = "exit", ![p].result = "panicked"]
    /\ UNCHANGED <<AddFrame, indexFile, objects>>

\* A repository after init, with files in the working directory.
InitAdd ==
    /\ InitIndex
    /\ InitCommit
    /\ InitCall
    /\ indexFile = NoFile
    /\ workspace = AddWorkspace
    /\ objects = NoEntries

NextAdd ==
    \E p \in Runs :
        \/ AddStart(p) \/ AddLoadPanics(p) \/ AddExpandFails(p)
        \/ AddStore(p) \/ AddFileFails(p) \/ AddIndex(p)
        \/ AddWriteCreate(p) \/ AddWriteAll(p) \/ AddWriteFails(p)

SpecAdd == InitAdd /\ [][NextAdd]_vars

(***************************************************************************)
(* Claims about the index in memory (Spec).                                *)
(***************************************************************************)
\* p is a proper ancestor directory of q: a proper prefix of its components.
ProperAncestor(p, q) == Len(p) < Len(q) /\ SubSeq(q, 1, Len(p)) = p

\* The step is an Index::add call.
IsAdd == nadds' = nadds + 1

\* C1: the tracked set never contains two paths of which one is a proper
\* ancestor directory of the other.
C1_NoFileAndDirectory ==
    \A p, q \in DOMAIN entries : ~ProperAncestor(p, q)

\* C2: Index::add(P) removes every existing entry whose path is a proper
\* ancestor of P, at every depth.
C2_AncestorsRemoved ==
    [][IsAdd => \A q \in DOMAIN entries :
                    ProperAncestor(q, lastAdd'.path) => q \notin DOMAIN entries']_vars

\* C3: Index::add(P) removes every existing entry whose path lies strictly
\* beneath P, for single- and multi-component P.
C3_DescendantsRemoved ==
    [][IsAdd => \A q \in DOMAIN entries :
                    ProperAncestor(lastAdd'.path, q) => q \notin DOMAIN entries']_vars

\* C4: after every Index::add, parents_to_children is exactly what
\* construct_parents_cache computes from the entries: the same keys and the
\* same child set for each key.
C4_CacheIsDerived ==
    pc = "loaded" => parents_to_children = construct_parents_cache(entries)

\* The paths of the entries of an index file, in file order.
RECURSIVE serialized_paths(_, _, _)
serialized_paths(data, pos, n) ==
    IF n = 0 THEN <<>>
    ELSE LET r == read_entry(data, pos)
         IN  <<PathString(r.entry.path)>> \o serialized_paths(data, r.pos, n - 1)

Ascending(texts) ==
    \A i, j \in 1..Len(texts) : i < j => BytesLess(texts[i], texts[j])

\* C10: get_filepaths returns, and write_updates serializes, the tracked
\* paths in ascending byte-wise order of the whole path string.
C10_BytewiseOrder ==
    pc = "loaded" =>
        LET paths == get_filepaths(Index)
            data == write_data(Index)
        IN  /\ Ascending([i \in 1..Len(paths) |-> PathString(paths[i])])
            /\ Ascending(serialized_paths(data, 12, Len(paths)))

(***************************************************************************)
(* Claims about the index file (SpecPersist).                              *)
(***************************************************************************)
\* What the last completed write_updates wrote.
WrittenData == write_data([entries |-> lastWritten.entries, parents_to_children |-> NoEntries])

\* C5: after add calls, write_updates and Index::new on the same file, the
\* loaded index has exactly the entries (path, address, metadata) the index
\* in memory had before write_updates.
C5_RoundTrip ==
    (pc = "loaded" /\ fresh /\ lastWritten.valid /\ indexFile.data = WrittenData)
        => entries = lastWritten.entries

\* C6: at every point during and after write_updates the index file holds
\* the complete previously persisted index or the complete new one.
C6_AtomicReplace ==
    \/ indexFile = NoFile
    \/ lastWritten.valid /\ indexFile.data = WrittenData
    \/ pc = "writing" /\ indexFile.data = write_data(Index)

(***************************************************************************)
(* Claims about the commit command (SpecCommit).                           *)
(***************************************************************************)
\* A file exists in the object store at the path of the address.
Present(oid) == object_path(oid) \in DOMAIN objects

\* The address of an entry of a directory.
EntryOid(entry) == IF entry.kind = "T" THEN entry.tree.oid.val ELSE entry.blob.oid

\* In the built tree, a directory object is present only with everything it
\* contains, at every depth.
RECURSIVE ChildrenFirst(_)
ChildrenFirst(tree) ==
    /\ Present(tree.oid.val) =>
          \A k \in DOMAIN tree.entries : Present(EntryOid(tree.entries[k]))
    /\ \A k \in DOMAIN tree.entries :
          tree.entries[k].kind = "T" => ChildrenFirst(tree.entries[k].tree)

\* C7: objects become present in the store in dependency order: what a
\* directory contains before the directory, the root tree before the commit
\* that names it, the commit before HEAD holds its address; HEAD never holds
\* the address of a commit that is absent from the store.
C7_DependencyOrder ==
    /\ root_tree.oid.some => ChildrenFirst(root_tree)
    /\ \A c \in DOMAIN commits : Present(c) => Present(commits[c].tree)
    /\ \A h \in {read_head(head)} : h.some => h.val \in DOMAIN commits /\ Present(h.val)

\* HEAD holds the address of a second commit, stored with its parent and
\* with trees that contain directories.
C7_Witness ==
    /\ cpc = "idle"
    /\ \E h \in {read_head(head)} :
          /\ h.some
          /\ Present(h.val)
          /\ commits[h.val].parent.some
          /\ Present(commits[h.val].parent.val)
    /\ Present(Sha1(TreeContent(EntryPrefix(NON_EXECUTABLE_MODE, <<N_bob>>) \o OidHi)))

\* The places of the nodes of a built tree: the root at <<>>, every entry
\* at the place of its directory followed by its name.
RECURSIVE tree_nodes(_, _)
tree_nodes(tree, at) ==
    {at} \cup UNION { IF tree.entries[k].kind = "T"
                      THEN tree_nodes(tree.entries[k].tree, at \o k)
                      ELSE {at \o k} : k \in DOMAIN tree.entries }

\* The address of the node at a place of a built tree.
RECURSIVE node_oid(_, _)
node_oid(tree, place) ==
    IF place = <<>> THEN tree.oid.val
    ELSE IF tree.entries[<<place[1]>>].kind = "T"
         THEN node_oid(tree.entries[<<place[1]>>].tree, Tail(place))
         ELSE tree.entries[<<place[1]>>].blob.oid

\* What Tree::traverse visited, while the commit command stores it.
Visits == IF phase = "tree" THEN to_store ELSE <<>>

\* Every node of the tree is visited exactly once, with its address.
EveryNodeOnce ==
    /\ { Visits[i].node : i \in 1..Len(Visits) } = tree_nodes(root_tree, <<>>)
    /\ \A i, j \in 1..Len(Visits) : Visits[i].node = Visits[j].node => i = j
    /\ \A i \in 1..Len(Visits) : Visits[i].oid = node_oid(root_tree, Visits[i].node)

\* Whatever lies in a directory is visited before the directory, and the
\* root is visited last.
ChildrenBeforeParents ==
    /\ \A i, j \in 1..Len(Visits) :
          ProperAncestor(Visits[j].node, Visits[i].node) => i < j
    /\ Visits[Len(Visits)].node = <<>>

\* C8, as stated: every distinct object reachable from the root is visited
\* exactly once, also when two files or two directories have the same
\* address; children before their directory, the root last.
C8_DistinctObjectsOnce ==
    phase = "tree" =>
        /\ EveryNodeOnce
        /\ \A i, j \in 1..Len(Visits) : Visits[i].oid = Visits[j].oid => i = j
        /\ ChildrenBeforeParents

\* C8, amended: every node of the tree is visited exactly once, so that an
\* object that occurs at several places is visited once for each of them;
\* children before their directory, the root last.
C8_NodesOnce ==
    phase = "tree" => EveryNodeOnce /\ ChildrenBeforeParents

\* A traversal of a tree with directories in which two nodes have the same
\* address.
C8_Witness ==
    /\ phase = "tree"
    /\ \E i, j \in 1..Len(Visits) : i # j /\ Visits[i].oid = Visits[j].oid
    /\ \E i \in 1..Len(Visits) : Len(Visits[i].node) >= 2

\* C9: the object store is write-once: a file of the store stays, and its
\* bytes change only by the write of the store call that created it, empty,
\* the step before; a store of an object that is there leaves every file as
\* it is.
C9_WriteOnce ==
    [][ /\ \A a \in DOMAIN objects :
              /\ a \in DOMAIN objects'
              /\ objects'[a] # objects[a] =>
                    /\ cpc = "store_write"
                    /\ a = object_path(Storing.oid)
                    /\ objects[a] = <<>>
        /\ lastStore' = "exists" /\ stored' # stored => objects' = objects
      ]_vars

\* An object was stored a second time: its file is there, with the bytes
\* the first store wrote.
C9_Witness ==
    /\ lastStore = "exists"
    /\ stored >= 1
    /\ Present(to_store[stored].oid)
    /\ objects[object_path(to_store[stored].oid)] = Deflate(to_store[stored].content)

(***************************************************************************)
(* More claims about the index in memory (Spec).                           *)
(***************************************************************************)
\* C13: after Index::add(P, oid, meta) the entries hold one entry for P, and
\* it is (P, oid, meta), whether P was tracked before or not.
C13_AddedEntry ==
    (pc = "loaded" /\ lastAdd # NoAdd) =>
        /\ lastAdd.path \in DOMAIN entries
        /\ entries[lastAdd.path] = [path |-> lastAdd.path, oid |-> lastAdd.oid,
                                    metadata |-> lastAdd.metadata]

\* alice.txt was added again, with another address and other metadata, next
\* to bob.txt.
C13_Witness ==
    /\ nadds >= 3
    /\ lastAdd = [path |-> P_alice, oid |-> OidHi, metadata |-> MetaExec]
    /\ DOMAIN entries = {P_alice, P_bob}
    /\ entries[P_alice].oid = OidHi

\* Neither the path itself, nor above it, nor beneath it.
Unrelated(q, p) == q # p /\ ~ProperAncestor(q, p) /\ ~ProperAncestor(p, q)

\* C20: Index::add(P) changes the entries only at P, at proper ancestors of
\* P and beneath P: every other tracked entry is still there, unchanged.
C20_Frame ==
    [][IsAdd => \A q \in DOMAIN entries :
                    Unrelated(q, lastAdd'.path) =>
                        q \in DOMAIN entries' /\ entries'[q] = entries[q]]_vars

(***************************************************************************)
(* Claims about Index::new (SpecIndexNew).                                 *)
(***************************************************************************)
\* Index::new was called on a file that is there and was read.
Loaded == call.fn = "Index::new" /\ call.case.file.exists /\ ~call.read_error

\* The 20 bytes after the header and the entries are the digest of the
\* header and the entries.
TrailerMatches(c) ==
    /\ Len(c.file.data) >= c.body_len + 20
    /\ SubSeq(c.file.data, c.body_len + 1, c.body_len + 20)
           = Sha1(SubSeq(c.file.data, 1, c.body_len))

FileBytes(c, a, b) ==
    SubSeq(c.file.data, a, IF Len(c.file.data) < b THEN Len(c.file.data) ELSE b)

\* The number of entries the header of the file declares.
DeclaredLength(c) ==
    IF Len(c.file.data) < 12 THEN 0 ELSE U32FromBe(FileBytes(c, 9, 12))

\* C12: Index::new returns an empty index when no file exists; whenever a
\* file exists, whatever the outcome of reading it, the call panics or
\* returns the validated content of the file (as many entries as its header
\* declares, under a trailer that matches), never a silently empty index.
C12_EmptyOnlyWhenAbsent ==
    call.fn = "Index::new" =>
        IF ~call.case.file.exists
        THEN ret.ok /\ ret.index.entries = NoEntries
        ELSE \/ ret = Panic
             \/ /\ TrailerMatches(call.case)
                /\ Cardinality(DOMAIN ret.index.entries) = DeclaredLength(call.case)

\* A byte of the terminator or the padding of an entry is not NUL.
PaddingNotZero(c) == \E i \in c.pad : i <= Len(c.file.data) /\ c.file.data[i] # 0

Reordered(v) == { [i \in 1..Len(v) |-> v[f[i]]] : f \in Permutations(1..Len(v)) }

\* C14: Tree::new gives the same tree, with the same address for the root
\* and for every subdirectory, for the same blobs in whatever order they
\* are in the Vec given.
C14_OrderIndependent ==
    call.fn = "Tree::new" => \A v \in Reordered(call.blobs) : tree_new(v) = ret

\* Three blobs given with the deepest path first, and a tree built of them.
C14_Witness ==
    /\ call.fn = "Tree::new"
    /\ Len(call.blobs) = 3
    /\ call.blobs[1].path = P_claire
    /\ call.blobs[2].path = P_alice
    /\ call.blobs[3].path = P_nested_bob
    /\ ret.ok
    /\ ret.tree.oid.some
    /\ ret.tree.entries[P_nested].tree.oid.some
    /\ \E v \in Reordered(call.blobs) : v # call.blobs /\ tree_new(v) = ret

\* The content of a directory, from the name, the mode and the address of
\* each of its entries in the order of their names.
ExpectedContent(tree) ==
    LET keys == SortedPaths(DOMAIN tree.entries)
        mode(e) == IF e.kind = "T" THEN <<52, 48, 48, 48, 48>>
                   ELSE IF e.blob.exec THEN <<49, 48, 48, 55, 53, 53>>
                   ELSE <<49, 48, 48, 54, 52, 52>>
        oid(e) == IF e.kind = "T" THEN e.tree.oid.val ELSE e.blob.oid
        line(k) == mode(tree.entries[k]) \o <<32>> \o PathString(k) \o <<0>>
                       \o oid(tree.entries[k])
        data == Concat([i \in 1..Len(keys) |-> line(keys[i])])
    IN  <<116, 114, 101, 101, 32>> \o Decimal(Len(data)) \o <<0>> \o data

\* Every directory of the tree has content and address set, the address is
\* the hash of the content, and the content is that of its entries.
RECURSIVE WellBuilt(_)
WellBuilt(tree) ==
    /\ \A k \in DOMAIN tree.entries :
          tree.entries[k].kind = "T" => WellBuilt(tree.entries[k].tree)
    /\ tree.oid.some
    /\ tree.content.some
    /\ tree.oid.val = Sha1(tree.content.val)
    /\ tree.content.val = ExpectedContent(tree)

\* C15: after Tree::new returns, every directory of the tree, the root and
\* every subdirectory, also an empty root, has its content and its address
\* set, the address is the hash of the content, and the content is made of
\* the final names, modes and addresses of its entries; so Tree::traverse
\* meets no directory without an address.
C15_DirectoriesBuilt ==
    (call.fn = "Tree::new" /\ ret.ok) => WellBuilt(ret.tree)

\* A tree with a directory in a directory, all of them built.
C15_Witness ==
    /\ call.fn = "Tree::new"
    /\ ret.ok
    /\ P_nested \in DOMAIN ret.tree.entries
    /\ ret.tree.entries[P_nested].kind = "T"
    /\ <<N_inner>> \in DOMAIN ret.tree.entries[P_nested].tree.entries
    /\ ret.tree.entries[P_nested].tree.entries[<<N_inner>>].tree.oid.some
    /\ WellBuilt(ret.tree)

\* The bytes of a path: the bytes of its components, joined by '/'.
RECURSIVE RawPath(_)
RawPath(path) ==
    IF path = <<>> THEN <<>>
    ELSE IF Len(path) = 1 THEN path[1]
    ELSE path[1] \o <<Slash>> \o RawPath(Tail(path))

\* The serialized entry is: 40 bytes of metadata, the 20 bytes of the
\* address, two bytes of flags holding min(length of the name, 0xFFF), the
\* name, and 1 to 8 NUL bytes that make the length a multiple of 8.
Layout(data, entry, name) ==
    /\ Len(data) % 8 = 0
    /\ Len(data) - (62 + Len(name)) \in 1..8
    /\ SubSeq(data, 1, 40)
           = Concat([i \in 1..10 |-> U32ToBe(MetadataFields(entry.metadata)[i])])
    /\ SubSeq(data, 41, 60) = entry.oid
    /\ SubSeq(data, 61, 62) = U16ToBe(IF Len(name) < 4095 THEN Len(name) ELSE 4095)
    /\ SubSeq(data, 63, 62 + Len(name)) = name
    /\ \A i \in (63 + Len(name))..Len(data) : data[i] = 0

\* C16: every serialized index entry has a length that is a multiple of 8
\* and is the 40 metadata bytes, the 20 address bytes, a 2-byte flags field
\* of min(path byte length, 0xFFF), the path bytes, and then 1 to 8 NUL
\* bytes, for every path length.
C16_EntryLayout ==
    call.fn = "IndexEntry::to_data" => Layout(ret, call.entry, RawPath(call.entry.path))

\* The same with the text of the path, for the paths that are UTF-8.
TextLayout ==
    (call.fn = "IndexEntry::to_data" /\ ValidUtf8(RawPath(call.entry.path)))
        => Layout(ret, call.entry, RawPath(call.entry.path))

\* The commit made by the command, while and after it is stored.
TheCommit == to_store[1]

\* Where the lines of the header of an encoded commit start: after the NUL
\* that ends "commit <length>", up to the empty line before the message.
HeaderLineStarts(content) ==
    LET nul == CHOOSE i \in 1..Len(content) :
                   content[i] = 0 /\ \A j \in 1..(i - 1) : content[j] # 0
        blank == CHOOSE i \in 1..Len(content) :
                   /\ i > nul /\ content[i] = 10 /\ content[i + 1] = 10
                   /\ \A j \in (nul + 1)..(i - 1) : ~(content[j] = 10 /\ content[j + 1] = 10)
    IN  { i \in (nul + 1)..blank : i = nul + 1 \/ content[i - 1] = 10 }

\* The header lines of an encoded commit that start with "parent ".
ParentLines(content) ==
    { i \in HeaderLineStarts(content) : SubSeq(content, i, i + 6) = <<112, 97, 114, 101, 110, 116, 32>> }

\* C17: the commit Commit::new makes is a function of the tree address, the
\* parent, the author, the seconds and the message: its address is the hash
\* of its encoding, the encoding names the tree, has exactly one parent line
\* in its header when a parent is given and none otherwise; and after
\* Database::store of the commit an object file exists at its address.
C17_CommitEncoding ==
    phase = "commit" =>
        /\ TheCommit.oid = Sha1(TheCommit.content)
        /\ \E seconds \in Times, message \in Messages :
              TheCommit.content
                  = LET parent == commits[TheCommit.oid].parent
                        who == AUTHOR_NAME \o <<32, 60>> \o AUTHOR_EMAIL \o <<62, 32>>
                                   \o Decimal(seconds) \o <<32, 45, 48, 52, 48, 48, 10>>
                        data == <<116, 114, 101, 101, 32>> \o ToHex(commits[TheCommit.oid].tree)
                                    \o <<10>>
                                    \o (IF parent.some
                                        THEN <<112, 97, 114, 101, 110, 116, 32>>
                                                 \o ToHex(parent.val) \o <<10>>
                                        ELSE <<>>)
                                    \o <<97, 117, 116, 104, 111, 114, 32>> \o who
                                    \o <<99, 111, 109, 109, 105, 116, 116, 101, 114, 32>> \o who
                                    \o <<10>> \o message
                    IN  <<99, 111, 109, 109, 105, 116, 32>> \o Decimal(Len(data)) \o <<0>> \o data
        /\ Cardinality(ParentLines(TheCommit.content))
               = IF commits[TheCommit.oid].parent.some THEN 1 ELSE 0
        /\ stored = 1 => Present(TheCommit.oid)

\* A second commit, with a parent and a message that itself reads like a
\* parent line, stored.
C17_Witness ==
    /\ phase = "commit"
    /\ stored = 1
    /\ commits[TheCommit.oid].parent.some
    /\ Cardinality(ParentLines(TheCommit.content)) = 1
    /\ SubSeq(TheCommit.content, Len(TheCommit.content) - 9, Len(TheCommit.content))
           = MessageParent
    /\ Present(TheCommit.oid)

\* The object store that holds exactly the objects of a set, each at its
\* address with its content deflated.
StoreOf(S) ==
    [path \in { <<SubSeq(ToHex(o.oid), 1, 2), SubSeq(ToHex(o.oid), 3, 40)>> : o \in S } |->
        LET o == CHOOSE o \in S : path = <<SubSeq(ToHex(o.oid), 1, 2), SubSeq(ToHex(o.oid), 3, 40)>>
        IN  Deflate(o.content)]

\* C19: the contents of the object store after the Database::store calls
\* are a function of the set of objects stored: they depend neither on the
\* order of the calls nor on how many times an object was stored.
C19_StoreOfSet ==
    call.fn = "Database::store"
        => objects = StoreOf({ call.objects[i] : i \in 1..Len(call.objects) })

\* An object stored, another stored, the first stored again: two files.
C19_Witness ==
    /\ call.fn = "Database::store"
    /\ Len(call.objects) = 3
    /\ call.objects[1] = call.objects[3]
    /\ call.objects[1] # call.objects[2]
    /\ Cardinality(DOMAIN objects) = 2
    /\ Cardinality({ o.oid : o \in StoreObjects }) = Cardinality(StoreObjects)

\* C21: for every entry and every path length, also at and above the flags
\* cap, read_entry on the bytes to_data gave returns an equal entry and
\* leaves the cursor at the end of those bytes.
C21_EntryRoundTrip ==
    call.fn = "IndexEntry::read_entry" =>
        /\ ret.ok
        /\ ret.entry = call.entry
        /\ ret.pos = Len(call.data)

\* The same but for the address, and for the paths that are UTF-8.
PathRoundTrip ==
    (call.fn = "IndexEntry::read_entry" /\ ValidUtf8(RawPath(call.entry.path))) =>
        /\ ret.ok
        /\ ret.entry.path = call.entry.path
        /\ ret.entry.metadata = call.entry.metadata
        /\ ret.entry.oid = Sha1(call.entry.oid)
        /\ ret.pos = Len(call.data)

\* The files of a tree: each with the names from the root down to it, and
\* the blob it refers to.
RECURSIVE Leaves(_, _)
Leaves(tree, at) ==
    UNION { IF tree.entries[k].kind = "T"
            THEN Leaves(tree.entries[k].tree, at \o k)
            ELSE { [place |-> at \o k, blob |-> tree.entries[k].blob] } :
            k \in DOMAIN tree.entries }

\* No directory beneath this one is empty.
RECURSIVE NoEmptyDirectory(_)
NoEmptyDirectory(tree) ==
    \A k \in DOMAIN tree.entries :
        tree.entries[k].kind = "T" =>
            /\ tree.entries[k].tree.entries # NoEntries
            /\ NoEmptyDirectory(tree.entries[k].tree)

\* The paths of the blobs are unique and none is above another.
Unconflicting(blobs) ==
    \A i, j \in 1..Len(blobs) :
        i # j => /\ blobs[i].path # blobs[j].path
                 /\ ~ProperAncestor(blobs[i].path, blobs[j].path)

\* C22: for blobs with unique paths none of which is above another,
\* Tree::new does not panic, the files of the tree are exactly the blobs
\* given, each once, under its last component in the chain of directories
\* named by the components before it, and no directory but an empty root is
\* empty.
C22_LeavesAreInput ==
    (call.fn = "Tree::new" /\ Unconflicting(call.blobs)) =>
        /\ ret.ok
        /\ Leaves(ret.tree, <<>>)
               = { [place |-> call.blobs[i].path, blob |-> call.blobs[i]] :
                   i \in 1..Len(call.blobs) }
        /\ NoEmptyDirectory(ret.tree)

\* Three blobs at three depths, built into a tree of three files.
C22_Witness ==
    /\ call.fn = "Tree::new"
    /\ Unconflicting(call.blobs)
    /\ { call.blobs[i].path : i \in 1..Len(call.blobs) } = {P_alice, P_nested_bob, P_claire}
    /\ ret.ok
    /\ Cardinality(Leaves(ret.tree, <<>>)) = 3

\* C23: the commit command makes a commit without a parent only when no
\* HEAD file exists; whenever a HEAD file exists, the parent of the new
\* commit is the address HEAD holds at that moment (HEAD is not written
\* before the commit is stored).
C23_ParentIsHead ==
    (phase = "commit" /\ cpc # "head_write") =>
        \E parent \in {commits[TheCommit.oid].parent} :
            IF head.exists
            THEN parent.some /\ Some(parent.val) = ParseDigest(Trim(head.data))
            ELSE ~parent.some

\* The same for a HEAD file that holds an address.
ParentIsHeadAddress ==
    (phase = "commit" /\ cpc # "head_write" /\ (head.exists => read_head(head).some)) =>
        \E parent \in {commits[TheCommit.oid].parent} :
            IF head.exists
            THEN parent.some /\ Some(parent.val) = ParseDigest(Trim(head.data))
            ELSE ~parent.some

\* The object the last Database::store that returned was called with.
LastStored == to_store[stored]

\* C24: when Database::store has returned, the file at the address of the
\* object holds the complete deflated encoding of the object, also when an
\* earlier store of that address ended after it had created the file and
\* before it had written all of it.
C24_StoredComplete ==
    (cpc = "store" /\ stored >= 1) =>
        /\ Present(LastStored.oid)
        /\ objects[object_path(LastStored.oid)] = Deflate(LastStored.content)

\* The same for the calls that created the file themselves.
WrittenComplete ==
    (cpc = "store" /\ stored >= 1 /\ lastStore = "written") =>
        /\ Present(LastStored.oid)
        /\ objects[object_path(LastStored.oid)] = Deflate(LastStored.content)

\* C25: when the expansion of an input path fails, the add command ends
\* with the fatal condition without having stored a blob or opened the
\* index file for writing: the step leaves the object store and the index
\* file as they are.
C25_FatalLeavesAll ==
    [][\A p \in Runs :
          (runs[p].result = "none" /\ runs'[p].result = "fatal128") =>
              /\ objects' = objects
              /\ indexFile' = indexFile
              /\ runs'[p].stores = 0
              /\ ~runs'[p].wrote]_vars

\* A command given a file and then a path where nothing is has ended
\* fatally; nothing is stored and there is no index file.
C25_Witness ==
    /\ runs[1].result = "fatal128"
    /\ runs[1].args = <<P_alice, P_inner>>
    /\ objects = NoEntries
    /\ ~indexFile.exists

\* C26: in the add command the blob of every entry given to the index is in
\* the object store already; the index file is opened for writing only when
\* every expanded file has been added, and a run that ends on a file has
\* not written it; so every entry a run adds and then writes to the index
\* file has its blob in the store.
C26_BlobBeforeEntry ==
    \A p \in Runs :
        /\ \A path \in runs[p].added \cap DOMAIN runs[p].index.entries :
              Present(runs[p].index.entries[path].oid)
        /\ runs[p].wrote => runs[p].todo = <<>>
        /\ (runs[p].result = "panicked" /\ runs[p].todo # <<>>) => ~runs[p].wrote
        /\ (runs[p].pc = "writing" \/ runs[p].result = "done") => runs[p].wrote

\* A run has added three files and written the index; another has ended on
\* a file and left the index file alone.
C26_Witness ==
    /\ runs[1].result = "done"
    /\ runs[1].added = {P_alice, P_bob, P_nested_bob}
    /\ indexFile.data = write_data(runs[1].index)
    /\ runs[2].result = "panicked"
    /\ runs[2].todo # <<>>

\* Run p loaded the index before run q had written it, and wrote it after.
Overwrote(p, q) ==
    /\ runs[p].result = "done"
    /\ runs[q].result = "done"
    /\ q \notin runs[p].seen
    /\ q \in runs[p].after

\* C27: two add commands on one index file are not isolated.  Each loads
\* the index, changes it in memory and rewrites the whole file: when a run
\* has loaded the index before the other wrote it and writes it after, both
\* end successfully and the index file holds what that run had in memory,
\* without the entries only the other run added.
C27_LostUpdate ==
    \A p, q \in Runs :
        Overwrote(p, q) =>
            /\ indexFile.data = write_data(runs[p].index)
            /\ \A path \in runs[q].added \ runs[p].added :
                  path \notin DOMAIN runs[p].index.entries

\* Both commands have ended successfully, and the index file lacks bob.txt,
\* which the second one added.
C27_Witness ==
    /\ Overwrote(1, 2)
    /\ runs[1].added = {P_alice}
    /\ runs[2].added = {P_bob}
    /\ index_new(indexFile).ok
    /\ DOMAIN index_new(indexFile).index.entries = {P_alice}

(***************************************************************************)
(* The child sets and the entries (Spec).                                  *)
(***************************************************************************)
\* Every path of a child set is tracked.
NoDanglingChild ==
    \A parent \in DOMAIN parents_to_children :
        parents_to_children[parent] \subseteq DOMAIN entries

\* Every tracked path is in the child set of each of the keys that
\* get_parent_directories gives for it.
NoMissingChild ==
    \A path \in DOMAIN entries :
        \A i \in 1..Len(get_parent_directories(path)) :
            /\ get_parent_directories(path)[i] \in DOMAIN parents_to_children
            /\ path \in parents_to_children[get_parent_directories(path)[i]]

\* C28: after any sequence of Index::add calls, every path of a child set of
\* parents_to_children is a key of the entries, and every tracked path is in
\* the child set of each key Tree::get_parent_directories returns for it.
C28_ChildSetsMatch ==
    pc = "loaded" => NoDanglingChild /\ NoMissingChild

\* The add of inner removed nested/inner/claire.txt through the child set
\* of inner and left nested/bob.txt: the child set of nested holds the one
\* and no longer the other.
C28_Witness ==
    /\ pc = "loaded"
    /\ nadds >= 3
    /\ lastAdd # NoAdd
    /\ lastAdd.path = P_inner
    /\ P_claire \notin DOMAIN entries
    /\ P_nested_bob \in DOMAIN entries
    /\ P_nested \in DOMAIN parents_to_children
    /\ parents_to_children[P_nested] = {P_nested_bob}

====
